---- MODULE Spec2Model ----
(***************************************************************************)
(* The evaluator of src/parser/java_parser.py (class Evaluator) as a state *)
(* machine.  eval_stmt / eval_expr are recursive Python functions; the     *)
(* machine keeps their activation records on an explicit control stack     *)
(* (kont) and carries a Python exception in flight in `signal`.  The       *)
(* interpreted program is supplied statement by statement: whenever no     *)
(* exception is in flight, the statement that the running block executes   *)
(* next is drawn from the statement forms of eval_stmt.                    *)
(***************************************************************************)
EXTENDS Integers, Sequences, FiniteSets, TLC

VARIABLES
    env_stack,       \* Evaluator.env_stack: list of frames, bottom first
    current_object,  \* Evaluator.current_object: 0 is None, else a heap index
    heap,            \* the JavaObject instances allocated so far (fields dict each)
    kont,            \* activations of eval_stmt / eval_expr / eval_program, bottom first
    signal,          \* the Python exception in flight ("none": normal execution)
    out,             \* what print() has written
    last             \* what the most recent step did (observation only)

vars == <<env_stack, current_object, heap, kont, signal, out, last>>

\* ------------------------------------------------------------------ bounds
MaxDepth == 3   \* activations on the control stack
MaxObjs == 2    \* JavaObject instances allocated
MaxOut == 2     \* lines written
MaxInt == 2     \* the largest int an increment stores
MaxLen == 5     \* characters of a source text given to the lexer
\* Frames on env_stack when a nested statement is entered.
MaxEnv == MaxDepth + 1

\* ------------------------------------------------------------------ values
\* Runtime values are tagged: t is the Python type, n the number (or heap
\* index), s the text.
IntV(n) == [t |-> "int", n |-> n, s |-> ""]
StrV(s) == [t |-> "str", n |-> 0, s |-> s]
ObjV(i) == [t |-> "obj", n |-> i, s |-> ""]
NoneV == [t |-> "none", n |-> 0, s |-> ""]
BoolV(b) == [t |-> "bool", n |-> IF b THEN 1 ELSE 0, s |-> ""]
\* A Python float, kept as the text repr() gives it.
FloatV(text) == [t |-> "float", n |-> 0, s |-> text]
\* A name that a dict does not hold.
Absent == [t |-> "absent", n |-> 0, s |-> ""]

Names == {"x", "e", "a", "s"}
Ints == {IntV(0), IntV(1)}

\* str(v) of Python, on the values the model uses.
PyStr(v) ==
    CASE v.t = "int" -> ToString(v.n)
      [] v.t = "str" -> v.s
      [] v.t = "none" -> "None"
      [] v.t = "bool" -> IF v.n = 1 THEN "True" ELSE "False"
      [] v.t = "float" -> v.s
      [] OTHER -> "<JavaObject object>"

EmptyDict == [nm \in Names |-> Absent]

\* A frame of env_stack.  global marks the dict that is Evaluator.global_env.
Frame(isGlobal, d) == [global |-> isGlobal, vars |-> d]

Top(s) == s[Len(s)]
Pop(s) == SubSeq(s, 1, Len(s) - 1)

\* ------------------------------------------------------------ environments
push_env(es) == Append(es, Frame(FALSE, EmptyDict))

\* pop_env without its guard.
pop_env_unguarded(es) == Pop(es)

pop_env(es) == IF Len(es) > 1 THEN Pop(es) ELSE es

\* The topmost frame that binds name (0: none does): `for env in reversed(env_stack)`.
BindingFrame(es, name) ==
    LET S == {i \in 1..Len(es) : es[i].vars[name] # Absent}
    IN  IF S = {} THEN 0 ELSE CHOOSE i \in S : \A j \in S : j <= i

\* Whether the receiver is set and has a field called name.
HasField(cur, hp, name) == cur # 0 /\ hp[cur][name] # Absent

\* get_var: ok is FALSE where the code raises NameError.
get_var(es, cur, hp, name) ==
    LET i == BindingFrame(es, name)
    IN  IF i # 0 THEN [ok |-> TRUE, v |-> es[i].vars[name]]
        ELSE IF HasField(cur, hp, name) THEN [ok |-> TRUE, v |-> hp[cur][name]]
        ELSE [ok |-> FALSE, v |-> StrV("Variable '" \o name \o "' is not defined")]

\* A write to the top frame whatever binds the name.
SetInTopFrame(es, cur, hp, name, v) ==
    [env |-> [es EXCEPT ![Len(es)].vars[name] = v], heap |-> hp]

\* set_var: the frames and the heap after the assignment.
set_var(es, cur, hp, name, v) ==
    LET i == BindingFrame(es, name)
    IN  IF i # 0
        THEN [env |-> [es EXCEPT ![i].vars[name] = v], heap |-> hp]
        ELSE IF HasField(cur, hp, name)
        THEN [env |-> es, heap |-> [hp EXCEPT ![cur][name] = v]]
        ELSE [env |-> [es EXCEPT ![Len(es)].vars[name] = v], heap |-> hp]

\* `for (type, name), arg in zip(params, args): set_var(name, arg)`, from the i-th on.
RECURSIVE BindParams(_, _, _, _, _, _)
BindParams(es, cur, hp, params, args, i) ==
    IF i > Len(params) THEN [env |-> es, heap |-> hp]
    ELSE LET r == set_var(es, cur, hp, params[i], args[i])
         IN  BindParams(r.env, cur, r.heap, params, args, i + 1)

\* ------------------------------------------------- exceptions and activations
\* A Python exception in flight.  type is its class; value is ReturnException.value,
\* or the message of an error.
Sig(type, value) == [type |-> type, value |-> value]
NoSig == Sig("none", NoneV)

ControlTypes == {"BreakException", "ContinueException", "ReturnException"}
ErrorTypes == {"RuntimeError", "NameError"}

\* BreakException, ContinueException and ReturnException derive from Exception,
\* as RuntimeError, NameError and TypeError do: `except Exception` takes them all.
IsException(type) == type \in ControlTypes \cup ErrorTypes \cup {"TypeError", "IndexError"}

\* str(e) of the exception: BreakException() and ContinueException() carry no
\* argument, ReturnException(value) keeps value as its argument.
StrOfExc(sig) ==
    CASE sig.type \in {"BreakException", "ContinueException"} -> ""
      [] sig.type = "ReturnException" -> PyStr(sig.value)
      [] OTHER -> sig.value.s

\* An activation record.  k: which code is running ("top": eval_program's loop
\* over free statements, "main": eval_program's run of main, "static": a global
\* method, "method": an object method, "ctor": a constructor run by NewObject,
\* "loop", "switch", "try").  phase: the part of the statement that is executing.
\* old_obj, obj: the locals of that name.  len0, recv0: len(env_stack) and
\* current_object when the method or constructor was invoked (observations).
\* try: ncatch = len(catch_blocks), binder = var, fin = finally_block is non-empty,
\*      clause = index of the running catch clause, pend = the exception Python
\*      re-raises after the finally clause, caught = type(e) and msg = str(e) of
\*      the exception the except clause took, finran / nran = whether the
\*      finally block ran / how many catch bodies ran (observations).
\* switch: value, cases (the case values), idx (the case being executed),
\*      hasdef (stmt.default is non-empty), and observations ran (the case lists
\*      executed, in order), defran (the default list was executed).
\* main / top of a program given whole: source (the tokens interpret() parsed
\*      it from; <<>> for a program given parsed), prog (the classes and free statements
\*      eval_program received), body (the statement list `for stmt in ...` runs
\*      over), pc (the index of the statement it executes next).  A program
\*      supplied statement by statement has body = <<>>.
Ctx0 ==
    [k |-> "top", phase |-> "body", old_obj |-> 0, obj |-> 0, len0 |-> 1, recv0 |-> 0,
     params |-> <<>>, args |-> <<>>,
     ncatch |-> 0, binder |-> "e", fin |-> FALSE, clause |-> 0, pend |-> NoSig,
     caught |-> "none", msg |-> "", finran |-> FALSE, nran |-> 0,
     value |-> NoneV, cases |-> <<>>, idx |-> 0, hasdef |-> FALSE,
     ran |-> <<>>, defran |-> FALSE,
     source |-> <<>>, prog |-> <<>>, body |-> <<>>, pc |-> 1]

\* What a step did: ev names it ("call", "exit", "catch", "assign", ...), how
\* tells how an activation ended, ctx is the activation entered or left, result
\* the value the expression yielded.
Event(ev, how, ctx, result) == [ev |-> ev, how |-> how, ctx |-> ctx, result |-> result]
NoEvent == Event("step", "", Ctx0, NoneV)

\* Statements execute when no exception is in flight.
Running == signal.type = "none" /\ kont # <<>>
CanNest == Running /\ Len(kont) < MaxDepth /\ Len(env_stack) < MaxEnv

SetTop(kt, c) == [kt EXCEPT ![Len(kt)] = c]

\* ------------------------------------------------------------- expressions
\* The argument expressions the model draws: a literal, a variable, `this`.
Lit(v) == [e |-> "lit", v |-> v, name |-> ""]
Var(name) == [e |-> "var", v |-> NoneV, name |-> name]
This == [e |-> "var", v |-> NoneV, name |-> "this"]
BoolLit(b) == Lit(BoolV(b))
BinOp(op, l, r) == [e |-> "binop", op |-> op, left |-> l, right |-> r]
ArgExprs == {Lit(IntV(1)), This, Var("x")}

\* eval_expr on these: a Variable named 'this' yields current_object.
eval_expr(es, cur, hp, ex) ==
    IF ex.e = "lit" THEN [ok |-> TRUE, v |-> ex.v]
    ELSE IF ex.name = "this"
    THEN [ok |-> TRUE, v |-> IF cur = 0 THEN NoneV ELSE ObjV(cur)]
    ELSE get_var(es, cur, hp, ex.name)

\* Parameter lists: distinct names.
ParamLists == {<<>>, <<"x">>}
ArgValues(params) == [1..Len(params) -> Ints]
ArgExprLists(params) == [1..Len(params) -> ArgExprs]

\* ------------------------------------------------------------------- Init
\* Evaluator.__init__, inside interpret: one global frame, no receiver.
Init ==
    /\ env_stack = <<Frame(TRUE, EmptyDict)>>
    /\ current_object = 0
    /\ heap = <<>>
    /\ kont = <<[Ctx0 EXCEPT !.k = "init"]>>
    /\ signal = NoSig
    /\ out = <<>>
    /\ last = NoEvent

\* eval_program: with a static main, its body runs in a pushed frame; without,
\* the free statements run in the global frame.
EvalProgram(hasMain) ==
    /\ signal.type = "none" /\ kont # <<>> /\ Top(kont).k = "init"
    /\ env_stack' = IF hasMain THEN push_env(env_stack) ELSE env_stack
    /\ kont' = <<[Ctx0 EXCEPT !.k = IF hasMain THEN "main" ELSE "top",
                              !.len0 = Len(env_stack)]>>
    /\ last' = NoEvent
    /\ UNCHANGED <<current_object, heap, signal, out>>

InBody == Running /\ Top(kont).k # "init"

\* ------------------------------------------------------- simple statements
\* VarDecl / Assign: set_var(name, value).
StmtAssign(name, v) ==
    /\ InBody
    /\ LET r == set_var(env_stack, current_object, heap, name, v)
       IN  env_stack' = r.env /\ heap' = r.heap
    /\ last' = NoEvent
    /\ UNCHANGED <<current_object, kont, signal, out>>

\* ExprStmt(Variable(name)): get_var, which raises NameError on an unbound name.
StmtRead(name) ==
    /\ InBody
    /\ LET r == get_var(env_stack, current_object, heap, name)
       IN  /\ signal' = IF r.ok THEN NoSig ELSE Sig("NameError", r.v)
           /\ last' = Event("read", name, Ctx0, IF r.ok THEN r.v ELSE NoneV)
    /\ UNCHANGED <<env_stack, current_object, heap, kont, out>>

\* A statement whose expression divides by zero: self.error("Division by zero").
StmtDivZero ==
    /\ InBody
    /\ signal' = Sig("RuntimeError", StrV("Division by zero"))
    /\ last' = NoEvent
    /\ UNCHANGED <<env_stack, current_object, heap, kont, out>>

StmtBreak ==
    /\ InBody
    /\ signal' = Sig("BreakException", NoneV)
    /\ last' = NoEvent
    /\ UNCHANGED <<env_stack, current_object, heap, kont, out>>

StmtContinue ==
    /\ InBody
    /\ signal' = Sig("ContinueException", NoneV)
    /\ last' = NoEvent
    /\ UNCHANGED <<env_stack, current_object, heap, kont, out>>

StmtReturn(v) ==
    /\ InBody
    /\ signal' = Sig("ReturnException", v)
    /\ last' = NoEvent
    /\ UNCHANGED <<env_stack, current_object, heap, kont, out>>

\* println(text)
StmtPrintln(text) ==
    /\ InBody /\ Len(out) < MaxOut
    /\ out' = Append(out, text)
    /\ last' = NoEvent
    /\ UNCHANGED <<env_stack, current_object, heap, kont, signal>>

\* ------------------------------------------------------------ method calls
\* MethodCall on a JavaObject whose class has a method of that name and arity
\* (k = "method"), and MethodCall without receiver on a name of self.methods
\* (k = "static"): push_env, [old_obj, current_object = obj,] the parameters
\* through set_var.  The arguments were evaluated before.
Call(k, o, params, args) ==
    /\ InBody /\ CanNest
    /\ LET cur == IF k = "method" THEN o ELSE current_object
           r == BindParams(push_env(env_stack), cur, heap, params, args, 1)
           c == [Ctx0 EXCEPT !.k = k, !.old_obj = current_object, !.obj = cur,
                             !.len0 = Len(env_stack), !.recv0 = current_object]
       IN  /\ env_stack' = r.env
           /\ heap' = r.heap
           /\ current_object' = cur
           /\ kont' = Append(kont, c)
           /\ last' = Event("call", "", [c EXCEPT !.params = params, !.args = args],
                            NoneV)
    /\ UNCHANGED <<signal, out>>

StmtCallMethod(o, params, args) == o \in 1..Len(heap) /\ Call("method", o, params, args)

StmtCallStatic(params, args) == Call("static", 0, params, args)

\* The receiver after the body of a call of kind k: the object method assigns
\* old_obj back, the global method leaves current_object alone.
RestoredReceiver(c, cur) == IF c.k = "method" THEN c.old_obj ELSE cur

\* The body ran to its end: result = None, receiver restored, pop_env, return.
CallEnd ==
    /\ InBody /\ Top(kont).k \in {"method", "static"}
    /\ current_object' = RestoredReceiver(Top(kont), current_object)
    /\ env_stack' = pop_env(env_stack)
    /\ kont' = Pop(kont)
    /\ last' = Event("exit", "normal", Top(kont), NoneV)
    /\ UNCHANGED <<heap, signal, out>>

\* `except ReturnException as e: result = e.value`, then as above.
CallReturn ==
    /\ kont # <<>> /\ Top(kont).k \in {"method", "static"}
    /\ signal.type = "ReturnException"
    /\ current_object' = RestoredReceiver(Top(kont), current_object)
    /\ env_stack' = pop_env(env_stack)
    /\ kont' = Pop(kont)
    /\ signal' = NoSig
    /\ last' = Event("exit", "return", Top(kont), signal.value)
    /\ UNCHANGED <<heap, out>>

\* Any other exception leaves the call through no handler: the statements after
\* the try statement of the call (restore, pop_env) are not executed.
CallRaise ==
    /\ kont # <<>> /\ Top(kont).k \in {"method", "static"}
    /\ signal.type \notin {"none", "ReturnException"}
    /\ kont' = Pop(kont)
    /\ last' = Event("exit", "raise", Top(kont), NoneV)
    /\ UNCHANGED <<env_stack, current_object, heap, signal, out>>

\* ------------------------------------------------------------ construction
\* `for (t, name), arg in zip(constructor.params, expr.args):
\*      set_var(name, eval_expr(arg))`, from the i-th on; err is the NameError an
\* argument raised.
RECURSIVE BindCtorArgs(_, _, _, _, _, _)
BindCtorArgs(es, cur, hp, params, exprs, i) ==
    IF i > Len(params) THEN [env |-> es, heap |-> hp, err |-> NoSig]
    ELSE LET a == eval_expr(es, cur, hp, exprs[i])
         IN  IF ~a.ok THEN [env |-> es, heap |-> hp, err |-> Sig("NameError", a.v)]
             ELSE LET r == set_var(es, cur, hp, params[i], a.v)
                  IN  BindCtorArgs(r.env, cur, r.heap, params, exprs, i + 1)

\* The fields dict of a new instance: a declared field without initializer is None.
NewFields(fields) == [nm \in Names |-> IF nm \in fields THEN NoneV ELSE Absent]

\* NewObject, the class has a constructor of the arity: the instance is built,
\* then push_env, old_obj, current_object = obj, the parameters, the body.
StmtNew(fields, params, exprs) ==
    /\ InBody /\ CanNest /\ Len(heap) < MaxObjs
    /\ LET o == Len(heap) + 1
           r == BindCtorArgs(push_env(env_stack), o, Append(heap, NewFields(fields)),
                             params, exprs, 1)
           c == [Ctx0 EXCEPT !.k = "ctor", !.old_obj = current_object, !.obj = o,
                             !.len0 = Len(env_stack), !.recv0 = current_object]
       IN  /\ env_stack' = r.env
           /\ heap' = r.heap
           /\ current_object' = o
           /\ kont' = Append(kont, c)
           /\ signal' = r.err
           /\ last' = Event("call", "", [c EXCEPT !.params = params, !.args = exprs],
                            NoneV)
    /\ UNCHANGED out

\* NewObject, no constructor of the arity: the instance is returned as built.
StmtNewPlain(fields) ==
    /\ InBody /\ Len(heap) < MaxObjs
    /\ heap' = Append(heap, NewFields(fields))
    /\ last' = Event("new", "", Ctx0, ObjV(Len(heap) + 1))
    /\ UNCHANGED <<env_stack, current_object, kont, signal, out>>

\* NewObject of a class that declares the field x with the initializer `init` and
\* no constructor: `fields[field.name] = self.eval_expr(field.value)` runs before
\* the instance exists, with current_object as the caller left it.  The event
\* keeps that receiver (recv0) and the value the initializer yielded.
StmtNewInit(init) ==
    /\ InBody /\ Len(heap) < MaxObjs
    /\ LET a == eval_expr(env_stack, current_object, heap, init)
           c == [Ctx0 EXCEPT !.recv0 = current_object]
       IN  IF a.ok
           THEN /\ heap' = Append(heap, [NewFields({"x"}) EXCEPT !["x"] = a.v])
                /\ signal' = NoSig
                /\ last' = Event("init", init.name, c, a.v)
           ELSE /\ heap' = heap
                /\ signal' = Sig("NameError", a.v)
                /\ last' = Event("init", init.name, c, NoneV)
    /\ UNCHANGED <<env_stack, current_object, kont, out>>

\* `for m in ...: if len(m.params) == n:`: the first of the parameter lists that
\* has n entries (0: none has).
FirstOfArity(lists, n) ==
    LET S == {i \in 1..Len(lists) : Len(lists[i]) = n}
    IN  IF S = {} THEN 0 ELSE CHOOSE i \in S : \A j \in S : i <= j

\* The parameter lists of the constructors of a class, or of its methods of one name.
OverloadLists == {<<ps>> : ps \in ParamLists} \cup {<<ps, ps>> : ps \in ParamLists}

\* NewObject with nargs arguments, the class declares constructors and none has
\* nargs parameters: the loop over constructors ends without running one and
\* `return obj` yields the instance as built.
StmtNewMismatch(fields, ctors, nargs) ==
    /\ InBody /\ Len(heap) < MaxObjs
    /\ ctors # <<>> /\ FirstOfArity(ctors, nargs) = 0
    /\ heap' = Append(heap, NewFields(fields))
    /\ last' = Event("mismatch", "new", Ctx0, ObjV(Len(heap) + 1))
    /\ UNCHANGED <<env_stack, current_object, kont, signal, out>>

\* MethodCall with nargs arguments on the JavaObject o, the class has methods of
\* the name and none has nargs parameters (and self.methods has no such entry):
\* the loop over methods ends, and eval_expr ends in `return None`.
StmtCallMismatch(o, methods, nargs) ==
    /\ InBody /\ o \in 1..Len(heap)
    /\ methods # <<>> /\ FirstOfArity(methods, nargs) = 0
    /\ last' = Event("mismatch", "call", Ctx0, NoneV)
    /\ UNCHANGED <<env_stack, current_object, heap, kont, signal, out>>

\* The constructor body ran to its end: receiver restored, pop_env, break, return obj.
CtorEnd ==
    /\ InBody /\ Top(kont).k = "ctor"
    /\ current_object' = Top(kont).old_obj
    /\ env_stack' = pop_env(env_stack)
    /\ kont' = Pop(kont)
    /\ last' = Event("exit", "normal", Top(kont), ObjV(Top(kont).obj))
    /\ UNCHANGED <<heap, signal, out>>

\* NewObject has no try statement: every exception, ReturnException included,
\* leaves it as it came.
CtorRaise ==
    /\ kont # <<>> /\ Top(kont).k = "ctor"
    /\ signal.type # "none"
    /\ kont' = Pop(kont)
    /\ last' = Event("exit", IF signal.type = "ReturnException" THEN "return" ELSE "raise",
                     Top(kont), NoneV)
    /\ UNCHANGED <<env_stack, current_object, heap, signal, out>>

\* --------------------------------------------------------------------- try
\* Try: the try block starts.  fin: the statement has a non-empty finally_block.
StmtTry(fin) ==
    /\ InBody /\ CanNest
    /\ kont' = Append(kont, [Ctx0 EXCEPT !.k = "try", !.phase = "try", !.fin = fin])
    /\ last' = NoEvent
    /\ UNCHANGED <<env_stack, current_object, heap, signal, out>>

\* Python's `finally:` on leaving the try or except clause with `pend` in flight
\* ("none": left normally): a non-empty finally_block runs and pend is re-raised
\* after it; with no finally_block the statement is left at once.  The activation
\* of the finally block keeps fin, pend and nran.
ToFinally(c, pend) ==
    IF c.fin
    THEN [kont |-> SetTop(kont, [Ctx0 EXCEPT !.k = "try", !.phase = "finally",
                                             !.fin = TRUE, !.pend = pend,
                                             !.finran = TRUE, !.nran = c.nran]),
          signal |-> NoSig, left |-> FALSE]
    ELSE [kont |-> Pop(kont), signal |-> pend, left |-> TRUE]

HowLeft(sig) == IF sig.type = "none" THEN "normal" ELSE "raise"

\* The step to the finally clause, as an action on kont, signal and last; ev
\* names the step when the statement is not left by it.
GoFinally(c, pend, ev) ==
    LET f == ToFinally(c, pend)
    IN  /\ kont' = f.kont
        /\ signal' = f.signal
        /\ last' = IF f.left THEN Event("exit", HowLeft(pend), c, NoneV)
                   ELSE Event(ev, "", c, NoneV)

\* The try block ran to its end.
TryBlockEnd ==
    /\ InBody /\ Top(kont).k = "try" /\ Top(kont).phase = "try"
    /\ GoFinally(Top(kont), NoSig, "step")
    /\ UNCHANGED <<env_stack, current_object, heap, out>>

\* The catch clause to run for an exception caught by `except Exception as e`
\* (0: none): the loop over catch_blocks starts at the first clause.
FirstClause(c) == IF c.ncatch >= 1 THEN 1 ELSE 0

\* The loop over catch_blocks without its `break`: the next clause follows.
ClauseAfterNoBreak(c, i) == i + 1

\* The catch clause to run after the body of clause i has completed (0: none):
\* the loop body ends in `break`.
ClauseAfter(c, i) == 0

\* Entering catch clause i: push_env, set_var(var, str(e)), then the body.
EnterClause(c, i) ==
    LET r == set_var(push_env(env_stack), current_object, heap, c.binder, StrV(c.msg))
        c2 == [c EXCEPT !.phase = "catch", !.clause = i, !.nran = c.nran + 1]
    IN  /\ env_stack' = r.env
        /\ heap' = r.heap
        /\ kont' = SetTop(kont, c2)
        /\ signal' = NoSig
        /\ last' = Event("catch", "", c2, NoneV)

\* An exception leaves the try block: `except Exception as e`, in a statement
\* with ncatch catch clauses (the program's clause list is drawn here, where the
\* code first reads it); binder is the name each clause declares.
TryCatch(ncatch, binder) ==
    /\ kont # <<>> /\ Top(kont).k = "try" /\ Top(kont).phase = "try"
    /\ signal.type # "none" /\ IsException(signal.type)
    /\ LET c == [Top(kont) EXCEPT !.ncatch = ncatch, !.binder = binder,
                                  !.caught = signal.type, !.msg = StrOfExc(signal)]
       IN  IF FirstClause(c) # 0
           THEN EnterClause(c, FirstClause(c))
           ELSE /\ GoFinally(c, NoSig, "swallow")
                /\ UNCHANGED <<env_stack, heap>>
    /\ UNCHANGED <<current_object, out>>

\* A catch body ran to its end: pop_env, break.
CatchEnd ==
    /\ InBody /\ Top(kont).k = "try" /\ Top(kont).phase = "catch"
    /\ LET c == Top(kont)
           n == ClauseAfter(c, c.clause)
       IN  IF n # 0 /\ n <= c.ncatch
           THEN LET r == set_var(push_env(pop_env(env_stack)), current_object, heap,
                                 c.binder, StrV(c.msg))
                    c2 == [c EXCEPT !.clause = n, !.nran = c.nran + 1]
                IN  /\ env_stack' = r.env
                    /\ heap' = r.heap
                    /\ kont' = SetTop(kont, c2)
                    /\ signal' = NoSig
                    /\ last' = Event("catch", "", c2, NoneV)
           ELSE /\ env_stack' = pop_env(env_stack)
                /\ GoFinally(c, NoSig, "caught")
                /\ UNCHANGED heap
    /\ UNCHANGED <<current_object, out>>

\* The finally block placed after the try statement instead of in its finally
\* clause: an exception raised in the except clause leaves the statement at once.
AfterCatchRaiseSkipsFinally(c, sig) == [kont |-> Pop(kont), signal |-> sig, left |-> TRUE]

\* What Python does with an exception raised in the except clause: the finally
\* clause runs, then the exception goes on (the pop_env of the clause is skipped).
AfterCatchRaise(c, sig) == ToFinally(c, sig)

CatchRaise ==
    /\ kont # <<>> /\ Top(kont).k = "try" /\ Top(kont).phase = "catch"
    /\ signal.type # "none"
    /\ LET f == AfterCatchRaise(Top(kont), signal)
       IN  /\ kont' = f.kont
           /\ signal' = f.signal
           /\ last' = IF f.left THEN Event("exit", "raise", Top(kont), NoneV)
                      ELSE Event("catchraise", "", Top(kont), NoneV)
    /\ UNCHANGED <<env_stack, current_object, heap, out>>

\* The finally block ran to its end: the pending exception, if any, is re-raised.
FinallyEnd ==
    /\ InBody /\ Top(kont).k = "try" /\ Top(kont).phase = "finally"
    /\ kont' = Pop(kont)
    /\ signal' = Top(kont).pend
    /\ last' = Event("exit", HowLeft(Top(kont).pend), Top(kont), NoneV)
    /\ UNCHANGED <<env_stack, current_object, heap, out>>

\* An exception raised in the finally block replaces the pending one.
FinallyRaise ==
    /\ kont # <<>> /\ Top(kont).k = "try" /\ Top(kont).phase = "finally"
    /\ signal.type # "none"
    /\ kont' = Pop(kont)
    /\ last' = Event("exit", "raise", Top(kont), NoneV)
    /\ UNCHANGED <<env_stack, current_object, heap, signal, out>>

\* ------------------------------------------------------------------- loops
\* While / DoWhile / For / ForEach: the body is entered (condition true, or an
\* item left).
StmtLoop ==
    /\ InBody /\ CanNest
    /\ kont' = Append(kont, [Ctx0 EXCEPT !.k = "loop"])
    /\ last' = NoEvent
    /\ UNCHANGED <<env_stack, current_object, heap, signal, out>>

\* The body ran to its end, or `except ContinueException`: the loop goes on
\* with the next iteration.  (Another iteration of the same body is drawn
\* statement by statement like the first.)
LoopAgain ==
    /\ kont # <<>> /\ Top(kont).k = "loop"
    /\ signal.type = "ContinueException"
    /\ signal' = NoSig
    /\ last' = Event("loop", "continue", Top(kont), NoneV)
    /\ UNCHANGED <<env_stack, current_object, heap, kont, out>>

\* The condition is false after the body ran to its end or after a continue,
\* or `except BreakException: break`.
LoopExit ==
    /\ kont # <<>> /\ Top(kont).k = "loop"
    /\ signal.type \in {"none", "ContinueException", "BreakException"}
    /\ kont' = Pop(kont)
    /\ signal' = NoSig
    /\ last' = Event("exit", IF signal.type = "BreakException" THEN "break" ELSE "normal",
                     Top(kont), NoneV)
    /\ UNCHANGED <<env_stack, current_object, heap, out>>

\* Any other exception leaves the loop.
LoopRaise ==
    /\ kont # <<>> /\ Top(kont).k = "loop"
    /\ signal.type \notin {"none", "ContinueException", "BreakException"}
    /\ kont' = Pop(kont)
    /\ last' = Event("exit", "raise", Top(kont), NoneV)
    /\ UNCHANGED <<env_stack, current_object, heap, signal, out>>

\* ------------------------------------------------------------------ switch
CaseLists ==
    {<<>>} \cup {<<a>> : a \in Ints} \cup {<<a, b>> : a \in Ints, b \in Ints}

\* The test without `or matched`: no fall-through.
CaseTakenNoFallThrough(value, cases, i, matched) == value = cases[i]

\* `if value == case_result or matched`: whether case i of the scan is executed.
CaseTaken(value, cases, i, matched) == value = cases[i] \/ matched

\* The first case from the i-th on that the scan executes (0: none is left).
RECURSIVE NextCase(_, _, _, _)
NextCase(value, cases, i, matched) ==
    IF i > Len(cases) THEN 0
    ELSE IF CaseTaken(value, cases, i, matched) THEN i
    ELSE NextCase(value, cases, i + 1, matched)

\* `if not matched and stmt.default`
DefaultTaken(matched, hasdef) == ~matched /\ hasdef

\* The scan from case i on: the activation moves to the next executed case, to
\* the default list, or the statement is left.
Scan(c, i, matched) ==
    LET n == NextCase(c.value, c.cases, i, matched)
    IN  IF n # 0
        THEN [left |-> FALSE,
              ctx |-> [c EXCEPT !.phase = "case", !.idx = n, !.ran = Append(c.ran, n)]]
        ELSE IF DefaultTaken(matched, c.hasdef)
        THEN [left |-> FALSE, ctx |-> [c EXCEPT !.phase = "default", !.defran = TRUE]]
        ELSE [left |-> TRUE, ctx |-> c]

GoScan(c, base, i, matched) ==
    LET r == Scan(c, i, matched)
    IN  /\ kont' = IF r.left THEN base ELSE Append(base, r.ctx)
        /\ last' = IF r.left THEN Event("exit", "normal", r.ctx, NoneV) ELSE NoEvent

\* Switch: value = eval_expr(stmt.expr), matched = False, the scan starts.
StmtSwitch(value, cases, hasdef) ==
    /\ InBody /\ CanNest
    /\ GoScan([Ctx0 EXCEPT !.k = "switch", !.value = value, !.cases = cases,
                           !.hasdef = hasdef],
              kont, 1, FALSE)
    /\ UNCHANGED <<env_stack, current_object, heap, signal, out>>

\* A case list ran to its end: the scan goes on with matched = True.
CaseEnd ==
    /\ InBody /\ Top(kont).k = "switch" /\ Top(kont).phase = "case"
    /\ GoScan(Top(kont), Pop(kont), Top(kont).idx + 1, TRUE)
    /\ UNCHANGED <<env_stack, current_object, heap, signal, out>>

\* `except BreakException: break` around a case list; matched is True.
CaseBreak ==
    /\ kont # <<>> /\ Top(kont).k = "switch" /\ Top(kont).phase = "case"
    /\ signal.type = "BreakException"
    /\ kont' = Pop(kont)
    /\ signal' = NoSig
    /\ last' = Event("exit", "break", Top(kont), NoneV)
    /\ UNCHANGED <<env_stack, current_object, heap, out>>

\* The default list ran to its end.
DefaultEnd ==
    /\ InBody /\ Top(kont).k = "switch" /\ Top(kont).phase = "default"
    /\ kont' = Pop(kont)
    /\ last' = Event("exit", "normal", Top(kont), NoneV)
    /\ UNCHANGED <<env_stack, current_object, heap, signal, out>>

\* Every other exception leaves the switch: any but BreakException from a case
\* list, any at all from the default list (it is not inside the try statement).
SwitchRaise ==
    /\ kont # <<>> /\ Top(kont).k = "switch"
    /\ signal.type # "none"
    /\ ~(Top(kont).phase = "case" /\ signal.type = "BreakException")
    /\ kont' = Pop(kont)
    /\ last' = Event("exit", "raise", Top(kont), NoneV)
    /\ UNCHANGED <<env_stack, current_object, heap, signal, out>>

\* ------------------------------------------------------------- program end
\* eval_program after the body of main (ran to its end, or ReturnException):
\* pop_env, return.  After the last free statement: return.
ProgramEnd ==
    /\ kont # <<>> /\ Top(kont).k \in {"main", "top"}
    /\ \/ signal.type = "none" /\ Top(kont).pc > Len(Top(kont).body)
       \/ signal.type = "ReturnException" /\ Top(kont).k = "main"
    /\ env_stack' = IF Top(kont).k = "main" THEN pop_env(env_stack) ELSE env_stack
    /\ kont' = <<>>
    /\ signal' = NoSig
    /\ last' = Event("exit", IF signal.type = "none" THEN "normal" ELSE "return",
                     Top(kont), NoneV)
    /\ UNCHANGED <<current_object, heap, out>>

\* The exception classes interpret() handles, among those the model raises.
InterpretHandles(type) ==
    type \in {"SyntaxError", "NameError", "RuntimeError", "IndexError", "ZeroDivisionError"}

\* An exception leaves eval_program: interpret prints "Error: <message>" for the
\* classes it handles; any other goes on to the caller of interpret.
ProgramRaise ==
    /\ kont # <<>> /\ Top(kont).k \in {"main", "top"}
    /\ signal.type # "none"
    /\ ~(signal.type = "ReturnException" /\ Top(kont).k = "main")
    /\ kont' = <<>>
    /\ IF InterpretHandles(signal.type)
       THEN signal' = NoSig /\ out' = Append(out, "Error: " \o signal.value.s)
       ELSE UNCHANGED <<signal, out>>
    /\ last' = Event("exit", "raise", Top(kont), NoneV)
    /\ UNCHANGED <<env_stack, current_object, heap>>

\* ------------------------------------------------------------------ parser
\* A token: its TokenType (by name) and its value.  The lexer's table of
\* keywords gives an identifier its type: `keywords.get(ident, TokenType.ID)`.
Tok(type, value) == [type |-> type, value |-> value]
Sym(type) == Tok(type, "")
IdentToken(ident) ==
    CASE ident = "int" -> Tok("INT_TYPE", ident)
      [] ident = "float" -> Tok("FLOAT_TYPE", ident)
      [] ident = "double" -> Tok("DOUBLE_TYPE", ident)
      [] ident = "boolean" -> Tok("BOOLEAN_TYPE", ident)
      [] ident = "char" -> Tok("CHAR_TYPE", ident)
      [] ident = "String" -> Tok("STRING_TYPE", ident)
      [] ident = "void" -> Tok("VOID", ident)
      [] ident = "new" -> Tok("NEW", ident)
      [] ident = "true" -> Tok("TRUE", ident)
      [] ident = "false" -> Tok("FALSE", ident)
      [] ident = "null" -> Tok("NULL", ident)
      [] ident = "this" -> Tok("THIS", ident)
      [] OTHER -> Tok("ID", ident)

\* Parser.current / advance; pos counts from 1 (self.pos + 1).
current(toks, pos) == IF pos <= Len(toks) THEN toks[pos] ELSE toks[Len(toks)]
advance(toks, pos) == IF pos < Len(toks) THEN pos + 1 ELSE pos

\* What a parse function yields: the node and the position after it, or the
\* message of the SyntaxError it raised (without the `Line l, Col c: ` prefix).
NoNode == [e |-> "none"]
Parsed(node, pos) == [ok |-> TRUE, node |-> node, pos |-> pos, msg |-> ""]
Failed(msg, pos) == [ok |-> FALSE, node |-> NoNode, pos |-> pos, msg |-> msg]

expect(toks, pos, type) ==
    IF current(toks, pos).type # type
    THEN Failed("Expected " \o type \o ", got " \o current(toks, pos).type, pos)
    ELSE Parsed(NoNode, advance(toks, pos))

TypeTokens ==
    {"INT_TYPE", "FLOAT_TYPE", "DOUBLE_TYPE", "BOOLEAN_TYPE", "CHAR_TYPE", "STRING_TYPE", "VOID"}

is_type(toks, pos) == current(toks, pos).type \in TypeTokens \cup {"ID"}

\* parse_type, its loop `while current is LBRACKET: advance; expect(RBRACKET);
\* type_str += '[]'`; node is the type string.
RECURSIVE TypeBrackets(_, _, _)
TypeBrackets(toks, pos, type_str) ==
    IF current(toks, pos).type # "LBRACKET" THEN Parsed(type_str, pos)
    ELSE LET r == expect(toks, advance(toks, pos), "RBRACKET")
         IN  IF ~r.ok THEN r ELSE TypeBrackets(toks, r.pos, type_str \o "[]")

parse_type(toks, pos) ==
    IF is_type(toks, pos)
    THEN TypeBrackets(toks, advance(toks, pos), current(toks, pos).value)
    ELSE Failed("Expected type", pos)

\* Expression nodes the parser builds besides Lit, Var and BinOp.
UnaryOp(op, operand) == [e |-> "unary", op |-> op, operand |-> operand]
NewArray(element_type, sizes) ==
    [e |-> "newarray", element_type |-> element_type, sizes |-> sizes]
NewObject(class_name, args) == [e |-> "newobject", class_name |-> class_name, args |-> args]
ArrayAccess(array, index) == [e |-> "index", array |-> array, index |-> index]
FieldAccess(obj, field) == [e |-> "field", obj |-> obj, field |-> field]
MethodCall(obj, method, args) == [e |-> "call", obj |-> obj, method |-> method, args |-> args]
TernaryOp(condition, true_expr, false_expr) ==
    [e |-> "ternary", condition |-> condition, true_expr |-> true_expr,
     false_expr |-> false_expr]

\* One level for all binary operators: no precedence among them.
LevelOpsFlat(lvl) ==
    IF lvl = 1
    THEN {"OR", "AND", "EQ", "NE", "LT", "LE", "GT", "GE", "PLUS", "MINUS", "STAR", "SLASH",
          "PERCENT"}
    ELSE {}

\* The binary levels of parse_expr, loosest first: parse_or, parse_and,
\* parse_equality, parse_relational, parse_additive, parse_multiplicative.
LevelOps(lvl) ==
    CASE lvl = 1 -> {"OR"}
      [] lvl = 2 -> {"AND"}
      [] lvl = 3 -> {"EQ", "NE"}
      [] lvl = 4 -> {"LT", "LE", "GT", "GE"}
      [] lvl = 5 -> {"PLUS", "MINUS"}
      [] lvl = 6 -> {"STAR", "SLASH", "PERCENT"}
OpOf(type) ==
    CASE type = "OR" -> "||" [] type = "AND" -> "&&" [] type = "EQ" -> "=="
      [] type = "NE" -> "!=" [] type = "LT" -> "<" [] type = "LE" -> "<="
      [] type = "GT" -> ">" [] type = "GE" -> ">=" [] type = "PLUS" -> "+"
      [] type = "MINUS" -> "-" [] type = "STAR" -> "*" [] type = "SLASH" -> "/"
      [] type = "PERCENT" -> "%"

\* `return <node>` after a parse that went through: the node at its position.
WithNode(r, node) == IF r.ok THEN Parsed(node, r.pos) ELSE r

\* `<r = a parse>; self.expect(type)`: the node of r, after the token.
ThenExpect(toks, r, type) == IF ~r.ok THEN r ELSE WithNode(expect(toks, r.pos, type), r.node)

\* The nodes built around a parsed operand, index, size list or argument list.
UnaryOf(op, r) == WithNode(r, UnaryOp(op, r.node))
IndexOf(left, i) == WithNode(i, ArrayAccess(left.node, i.node))
CallOf(obj, name, a) == WithNode(a, MethodCall(obj, name, a.node))
NewArrayOf(type_name, z) == WithNode(z, NewArray(type_name, z.node))
NewObjectOf(type_name, a) == WithNode(a, NewObject(type_name, a.node))
TernaryOf(condition, true_expr, f) == WithNode(f, TernaryOp(condition, true_expr, f.node))

RECURSIVE parse_expr(_, _), parse_ternary(_, _), TernaryRest(_, _), TernaryFalse(_, _, _),
          parse_binary(_, _, _), BinaryRest(_, _, _), BinaryRight(_, _, _, _),
          parse_unary(_, _), parse_postfix(_, _), PostfixRest(_, _), parse_primary(_, _),
          ArraySizes(_, _, _), SizesRest(_, _, _), parse_args(_, _), ArgsRest(_, _, _)

parse_expr(toks, pos) == parse_ternary(toks, pos)

\* `expr = self.parse_or()`, then `? true_expr : false_expr` when a `?` follows.
parse_ternary(toks, pos) == TernaryRest(toks, parse_binary(toks, pos, 1))

TernaryRest(toks, expr) ==
    IF ~expr.ok THEN expr
    ELSE IF current(toks, expr.pos).type # "QUESTION" THEN expr
    ELSE TernaryFalse(toks, expr,
                      ThenExpect(toks, parse_expr(toks, advance(toks, expr.pos)), "COLON"))

TernaryFalse(toks, expr, t) ==
    IF ~t.ok THEN t ELSE TernaryOf(expr.node, t.node, parse_expr(toks, t.pos))

\* `left = <next level>()`, then the loop over the operators of the level.
parse_binary(toks, pos, lvl) ==
    IF lvl > 6 THEN parse_unary(toks, pos)
    ELSE BinaryRest(toks, parse_binary(toks, pos, lvl + 1), lvl)

\* `while current in ops: advance; right = <next level>(); left = BinOp(op, left, right)`;
\* parse_relational has `if ... return` in place of the loop.
BinaryRest(toks, left, lvl) ==
    IF ~left.ok THEN left
    ELSE IF current(toks, left.pos).type \notin LevelOps(lvl) THEN left
    ELSE BinaryRight(toks, left, parse_binary(toks, advance(toks, left.pos), lvl + 1), lvl)

BinaryRight(toks, left, right, lvl) ==
    LET n == Parsed(BinOp(OpOf(current(toks, left.pos).type), left.node, right.node), right.pos)
    IN  IF ~right.ok THEN right
        ELSE IF lvl = 4 THEN n ELSE BinaryRest(toks, n, lvl)

\* parse_unary: `!`, unary `-` and `+`; anything else is a postfix expression.
\* (The model's programs hold no prefix ++ / -- and no cast.)
parse_unary(toks, pos) ==
    LET t == current(toks, pos).type
    IN  IF t \in {"NOT", "MINUS"}
        THEN UnaryOf(IF t = "NOT" THEN "!" ELSE "-", parse_unary(toks, advance(toks, pos)))
        ELSE IF t = "PLUS" THEN parse_unary(toks, advance(toks, pos))
        ELSE parse_postfix(toks, pos)

parse_postfix(toks, pos) == PostfixRest(toks, parse_primary(toks, pos))

\* The `while True` of parse_postfix: [index], .field, .method(args), ++, --.
PostfixRest(toks, left) ==
    LET t == current(toks, left.pos).type
        p1 == advance(toks, left.pos)
        name == current(toks, p1).value
        p2 == advance(toks, p1)
    IN  IF ~left.ok THEN left
        ELSE IF t = "LBRACKET"
        THEN PostfixRest(toks, IndexOf(left, ThenExpect(toks, parse_expr(toks, p1), "RBRACKET")))
        ELSE IF t = "DOT"
        THEN IF current(toks, p1).type # "ID"
             THEN Failed("Expected field or method name", p1)
             ELSE IF current(toks, p2).type = "LPAREN"
             THEN PostfixRest(toks,
                      CallOf(left.node, name,
                             ThenExpect(toks, parse_args(toks, advance(toks, p2)), "RPAREN")))
             ELSE PostfixRest(toks, Parsed(FieldAccess(left.node, name), p2))
        ELSE IF t \in {"PLUSPLUS", "MINUSMINUS"}
        THEN PostfixRest(toks, Parsed(UnaryOp(IF t = "PLUSPLUS" THEN "++post" ELSE "--post",
                                              left.node), p1))
        ELSE left

\* parse_primary on the tokens of the model's programs: literals, `this`, `new`,
\* an identifier (a call when `(` follows), a parenthesized expression.
parse_primary(toks, pos) ==
    LET tk == current(toks, pos)
        p1 == advance(toks, pos)
        \* after `new`: `if current is ID: type_name = value; advance` else parse_type()
        ty == IF current(toks, p1).type = "ID"
              THEN Parsed(current(toks, p1).value, advance(toks, p1))
              ELSE parse_type(toks, p1)
    IN  CASE tk.type = "INT" -> Parsed(Lit(IntV(tk.value)), p1)
          [] tk.type = "STRING" -> Parsed(Lit(StrV(tk.value)), p1)
          [] tk.type = "TRUE" -> Parsed(BoolLit(TRUE), p1)
          [] tk.type = "FALSE" -> Parsed(BoolLit(FALSE), p1)
          [] tk.type = "NULL" -> Parsed(Lit(NoneV), p1)
          [] tk.type = "THIS" -> Parsed(This, p1)
          [] tk.type = "NEW" ->
                IF ~ty.ok THEN ty
                ELSE IF current(toks, ty.pos).type = "LBRACKET"
                THEN NewArrayOf(ty.node, ArraySizes(toks, ty.pos, <<>>))
                ELSE IF current(toks, ty.pos).type = "LPAREN"
                THEN NewObjectOf(ty.node,
                         ThenExpect(toks, parse_args(toks, advance(toks, ty.pos)), "RPAREN"))
                ELSE Failed("Expected ( or [ after new", ty.pos)
          [] tk.type = "ID" ->
                IF current(toks, p1).type = "LPAREN"
                THEN CallOf(NoNode, tk.value,
                            ThenExpect(toks, parse_args(toks, advance(toks, p1)), "RPAREN"))
                ELSE Parsed(Var(tk.value), p1)
          [] tk.type = "LPAREN" -> ThenExpect(toks, parse_expr(toks, p1), "RPAREN")
          [] OTHER -> Failed("Unexpected token: " \o tk.type, pos)

\* `while current is LBRACKET: advance; if current is not RBRACKET:
\* sizes.append(parse_expr()); expect(RBRACKET)`
ArraySizes(toks, pos, sizes) ==
    LET p1 == advance(toks, pos)
    IN  IF current(toks, pos).type # "LBRACKET" THEN Parsed(sizes, pos)
        ELSE IF current(toks, p1).type = "RBRACKET"
        THEN ArraySizes(toks, advance(toks, p1), sizes)
        ELSE SizesRest(toks, ThenExpect(toks, parse_expr(toks, p1), "RBRACKET"), sizes)

SizesRest(toks, x, sizes) ==
    IF ~x.ok THEN x ELSE ArraySizes(toks, x.pos, Append(sizes, x.node))

parse_args(toks, pos) ==
    IF current(toks, pos).type \in {"RPAREN", "EOF"} THEN Parsed(<<>>, pos)
    ELSE ArgsRest(toks, parse_expr(toks, pos), <<>>)

\* `args.append(<x>)`, then `while current is COMMA: advance; args.append(parse_expr())`
ArgsRest(toks, x, args) ==
    IF ~x.ok THEN x
    ELSE IF current(toks, x.pos).type # "COMMA" THEN Parsed(Append(args, x.node), x.pos)
    ELSE ArgsRest(toks, parse_expr(toks, advance(toks, x.pos)), Append(args, x.node))

\* Statement nodes.
ExprStmt(ex) == [s |-> "expr", ex |-> ex]
VarDecl(var_type, name, value) ==
    [s |-> "decl", var_type |-> var_type, name |-> name, ex |-> value]
Assign(target, value) == [s |-> "assign", name |-> target, ex |-> value]
ArrayAssign(array, index, value) ==
    [s |-> "arrayassign", name |-> array, index |-> index, ex |-> value]
FieldAssign(obj, field, value) ==
    [s |-> "fieldassign", obj |-> obj, field |-> field, ex |-> value]

\* The statements built around a parsed expression or value.
ExprStmtOf(r) == WithNode(r, ExprStmt(r.node))
VarDeclOf(var_type, name, r) == WithNode(r, VarDecl(var_type, name, r.node))
AssignOf(name, r) == WithNode(r, Assign(name, r.node))
CompoundOf(name, op, r) == WithNode(r, Assign(name, BinOp(op, Var(name), r.node)))
ArrayAssignOf(name, index, r) == WithNode(r, ArrayAssign(name, index, r.node))
FieldAssignOf(target, r) == WithNode(r, FieldAssign(target.obj, target.field, r.node))

\* `expr = parse_expr(); expect(SEMICOLON); return ExprStmt(expr)`
ExprStatement(toks, pos) == ExprStmtOf(ThenExpect(toks, parse_expr(toks, pos), "SEMICOLON"))

\* `[advance; value = parse_expr();] expect(SEMICOLON)` of a statement that
\* ends in an optional or mandatory `= value`: the value (NoNode for None) and
\* the position after the semicolon.
ValueThenSemicolon(toks, pos, starts) ==
    IF current(toks, pos).type \in starts
    THEN ThenExpect(toks, parse_expr(toks, advance(toks, pos)), "SEMICOLON")
    ELSE ThenExpect(toks, Parsed(NoNode, pos), "SEMICOLON")

\* After `name [ index ]`: an array assignment when `=` follows, else
\* `self.pos -= 3` and an expression statement.
ArrayStatement(toks, name, i) ==
    IF ~i.ok THEN i
    ELSE IF current(toks, i.pos).type = "ASSIGN"
    THEN ArrayAssignOf(name, i.node, ValueThenSemicolon(toks, i.pos, {"ASSIGN"}))
    ELSE ExprStatement(toks, i.pos - 3)

\* After `name . ...` parsed as an expression x: a field assignment when `=`
\* follows a FieldAccess, else an expression statement.
DotStatement(toks, x) ==
    IF ~x.ok THEN x
    ELSE IF current(toks, x.pos).type = "ASSIGN" /\ x.node.e = "field"
    THEN FieldAssignOf(x.node, ValueThenSemicolon(toks, x.pos, {"ASSIGN"}))
    ELSE ExprStmtOf(ThenExpect(toks, x, "SEMICOLON"))

\* parse_stmt, `if token.type == TokenType.ID:` (assignment or expression).
IdStatement(toks, pos) ==
    LET name == current(toks, pos).value
        p1 == advance(toks, pos)
        t == current(toks, p1).type
    IN  IF t = "LBRACKET"
        THEN ArrayStatement(toks, name,
                 ThenExpect(toks, parse_expr(toks, advance(toks, p1)), "RBRACKET"))
        ELSE IF t = "DOT" THEN DotStatement(toks, parse_expr(toks, pos))
        ELSE IF t = "ASSIGN" THEN AssignOf(name, ValueThenSemicolon(toks, p1, {"ASSIGN"}))
        ELSE IF t \in {"PLUSASSIGN", "MINUSASSIGN"}
        THEN CompoundOf(name, IF t = "PLUSASSIGN" THEN "+" ELSE "-",
                        ValueThenSemicolon(toks, p1, {"PLUSASSIGN", "MINUSASSIGN"}))
        ELSE ExprStatement(toks, pos)

\* parse_stmt on the statements of the model's programs (none starts with a
\* control-flow keyword, `this` or `{`).  A token that can start a type goes
\* through parse_type first: `Type name ...` is a declaration, unless `(`
\* follows the name; anything else backs up to start_pos.  A statement that
\* starts with none of these yields None (NoNode).
parse_stmt(toks, pos) ==
    LET ty == parse_type(toks, pos)
        p2 == advance(toks, ty.pos)
    IN  IF is_type(toks, pos) /\ ~ty.ok THEN ty
        ELSE IF is_type(toks, pos) /\ current(toks, ty.pos).type = "ID"
        THEN IF current(toks, p2).type = "LPAREN" THEN ExprStatement(toks, pos)
             ELSE VarDeclOf(ty.node, current(toks, ty.pos).value,
                            ValueThenSemicolon(toks, p2, {"ASSIGN"}))
        ELSE IF current(toks, pos).type = "ID" THEN IdStatement(toks, pos)
        ELSE Parsed(NoNode, pos)

\* parse_block on `{ ... }`: `while current not in (RBRACE, EOF): stmt =
\* parse_stmt(); if stmt: stmts.append(stmt)`, then expect(RBRACE).  (The loop
\* does not end on a statement for which parse_stmt yields None without
\* advancing; the token lists of the model hold none.)
RECURSIVE BlockStmts(_, _, _), BlockNext(_, _, _)
BlockStmts(toks, pos, stmts) ==
    IF current(toks, pos).type \in {"RBRACE", "EOF"}
    THEN WithNode(expect(toks, pos, "RBRACE"), stmts)
    ELSE BlockNext(toks, parse_stmt(toks, pos), stmts)

BlockNext(toks, r, stmts) ==
    IF ~r.ok THEN r
    ELSE BlockStmts(toks, r.pos, IF r.node = NoNode THEN stmts ELSE Append(stmts, r.node))

\* `return [stmt] if stmt else []`
SingleStmt(r) == WithNode(r, IF r.node = NoNode THEN <<>> ELSE <<r.node>>)

parse_block(toks, pos) ==
    IF current(toks, pos).type = "LBRACE" THEN BlockStmts(toks, advance(toks, pos), <<>>)
    ELSE SingleStmt(parse_stmt(toks, pos))

\* ------------------------------------------------------------ class parsing
\* parse_modifiers: `while current in (PUBLIC, ...): append(type.name.lower()); advance`.
Modifiers == {"PUBLIC", "PRIVATE", "PROTECTED", "STATIC", "FINAL"}
ModifierName(type) ==
    CASE type = "PUBLIC" -> "public" [] type = "PRIVATE" -> "private"
      [] type = "PROTECTED" -> "protected" [] type = "STATIC" -> "static"
      [] type = "FINAL" -> "final"
RECURSIVE parse_modifiers(_, _, _)
parse_modifiers(toks, pos, modifiers) ==
    IF current(toks, pos).type \in Modifiers
    THEN parse_modifiers(toks, advance(toks, pos),
                         Append(modifiers, ModifierName(current(toks, pos).type)))
    ELSE Parsed(modifiers, pos)

\* The parameter list of a method or constructor, after `(`:
\* `param_type = parse_type(); if current is not ID: error(...); advance;
\* params.append((param_type, param_name)); while current is COMMA: ...`.
RECURSIVE OneParam(_, _, _), ParamsRest(_, _, _)
OneParam(toks, ty, params) ==
    IF ~ty.ok THEN ty
    ELSE IF current(toks, ty.pos).type # "ID" THEN Failed("Expected parameter name", ty.pos)
    ELSE ParamsRest(toks, advance(toks, ty.pos),
                    Append(params, <<ty.node, current(toks, ty.pos).value>>))

ParamsRest(toks, pos, params) ==
    IF current(toks, pos).type = "COMMA"
    THEN OneParam(toks, parse_type(toks, advance(toks, pos)), params)
    ELSE Parsed(params, pos)

parse_params(toks, pos) ==
    IF current(toks, pos).type # "RPAREN" THEN OneParam(toks, parse_type(toks, pos), <<>>)
    ELSE Parsed(<<>>, pos)

\* `expect(LPAREN); <params>; expect(RPAREN); body = parse_block()`
BodyOf(params, b) == WithNode(b, [params |-> params, body |-> b.node])
BodyAfter(toks, ps) == IF ~ps.ok THEN ps ELSE BodyOf(ps.node, parse_block(toks, ps.pos))
ParamsAndBody(toks, lp) ==
    IF ~lp.ok THEN lp
    ELSE BodyAfter(toks, ThenExpect(toks, parse_params(toks, lp.pos), "RPAREN"))

\* Member nodes.
Constructor(modifiers, name, params, body) ==
    [modifiers |-> modifiers, name |-> name, params |-> params, body |-> body]
MethodDecl(modifiers, return_type, name, params, body) ==
    [modifiers |-> modifiers, return_type |-> return_type, name |-> name,
     params |-> params, body |-> body]
FieldDecl(modifiers, field_type, name, value) ==
    [modifiers |-> modifiers, field_type |-> field_type, name |-> name, value |-> value]
ClassDecl(modifiers, name, fields, constructors, methods) ==
    [modifiers |-> modifiers, name |-> name, fields |-> fields,
     constructors |-> constructors, methods |-> methods]

ConstructorOf(modifiers, name, pb) ==
    IF ~pb.ok THEN pb
    ELSE Parsed(Constructor(modifiers, name, pb.node.params, pb.node.body), pb.pos)
MethodOf(modifiers, return_type, name, pb) ==
    IF ~pb.ok THEN pb
    ELSE Parsed(MethodDecl(modifiers, return_type, name, pb.node.params, pb.node.body), pb.pos)
FieldOf(modifiers, field_type, name, r) ==
    WithNode(r, FieldDecl(modifiers, field_type, name, r.node))

parse_method(toks, pos, modifiers) ==
    LET ty == parse_type(toks, pos)
    IN  IF ~ty.ok THEN ty
        ELSE IF current(toks, ty.pos).type # "ID" THEN Failed("Expected method name", ty.pos)
        ELSE MethodOf(modifiers, ty.node, current(toks, ty.pos).value,
                      ParamsAndBody(toks, expect(toks, advance(toks, ty.pos), "LPAREN")))

\* The member loop of parse_class: a member whose first token after the
\* modifiers is an ID equal to the class name is taken as a constructor
\* (`advance; expect(LPAREN)`); else a member that starts with a type is a
\* method when `(` follows its name and a field otherwise; any other token is
\* skipped.
RECURSIVE ClassMembers(_, _, _), Member(_, _, _), TypedMember(_, _, _, _),
          MemberDone(_, _, _, _)
ClassMembers(toks, pos, cls) ==
    IF current(toks, pos).type \in {"RBRACE", "EOF"}
    THEN WithNode(expect(toks, pos, "RBRACE"), cls)
    ELSE Member(toks, parse_modifiers(toks, pos, <<>>), cls)

Member(toks, mm, cls) ==
    IF current(toks, mm.pos).type = "ID" /\ current(toks, mm.pos).value = cls.name
    THEN MemberDone(toks,
             ConstructorOf(mm.node, cls.name,
                 ParamsAndBody(toks, expect(toks, advance(toks, mm.pos), "LPAREN"))),
             cls, "constructors")
    ELSE IF is_type(toks, mm.pos) THEN TypedMember(toks, mm, parse_type(toks, mm.pos), cls)
    ELSE ClassMembers(toks, advance(toks, mm.pos), cls)

TypedMember(toks, mm, ty, cls) ==
    IF ~ty.ok THEN ty
    ELSE IF current(toks, ty.pos).type # "ID" THEN Failed("Expected member name", ty.pos)
    ELSE IF current(toks, advance(toks, ty.pos)).type = "LPAREN"
    THEN MemberDone(toks, parse_method(toks, mm.pos, mm.node), cls, "methods")
    ELSE MemberDone(toks,
             FieldOf(mm.node, ty.node, current(toks, ty.pos).value,
                     ValueThenSemicolon(toks, advance(toks, ty.pos), {"ASSIGN"})),
             cls, "fields")

MemberDone(toks, m, cls, kind) ==
    IF ~m.ok THEN m
    ELSE ClassMembers(toks, m.pos, [cls EXCEPT ![kind] = Append(@, m.node)])

parse_class(toks, pos) ==
    LET md == parse_modifiers(toks, pos, <<>>)
        c == expect(toks, md.pos, "CLASS")
        n == expect(toks, c.pos, "ID")
        b == expect(toks, n.pos, "LBRACE")
    IN  IF ~c.ok THEN c ELSE IF ~n.ok THEN n ELSE IF ~b.ok THEN b
        ELSE ClassMembers(toks, b.pos,
                 ClassDecl(md.node, current(toks, c.pos).value, <<>>, <<>>, <<>>))

\* ------------------------------------------------------- statement loops
\* The statement loops of parse_block and parse_switch, one iteration a step.
\* The activation holds the parser: source the tokens, pc the position
\* (self.pos + 1), body the statements collected, phase the loop it is in
\* ("block", "case", "default") or "labels" between the cases of a switch.
\* The loops run `while current not in <stops>: stmt = parse_stmt(); if stmt:
\* stmts.append(stmt)`.
LoopStops(phase) ==
    CASE phase = "block" -> {"RBRACE", "EOF"}
      [] phase = "case" -> {"CASE", "DEFAULT", "RBRACE"}
      [] phase = "default" -> {"CASE", "RBRACE"}

InLoop == signal.type = "none" /\ kont # <<>> /\ Top(kont).k = "parser"
ParserAt(toks, phase, pos) ==
    [Ctx0 EXCEPT !.k = "parser", !.phase = phase, !.source = toks, !.pc = pos]

\* The parse method returns its node or raises its SyntaxError.
ParserEnds(method, r) ==
    /\ kont' = <<>>
    /\ signal' = IF r.ok THEN NoSig ELSE Sig("SyntaxError", StrV(r.msg))
    /\ last' = Event(method, IF r.ok THEN "node" ELSE "raise", Top(kont), r)
    /\ UNCHANGED <<env_stack, current_object, heap, out>>

ParserGoes(how, c, r) ==
    /\ kont' = <<c>>
    /\ last' = Event("statement_loop", how, Top(kont), r)
    /\ UNCHANGED <<env_stack, current_object, heap, signal, out>>

\* parse_block on `{`: expect(LBRACE), then the loop.
ParseBlockEnter(toks) ==
    /\ signal.type = "none" /\ kont # <<>> /\ Top(kont).k = "init"
    /\ current(toks, 1).type = "LBRACE"
    /\ ParserGoes("enter", ParserAt(toks, "block", advance(toks, 1)), Parsed(NoNode, 2))

\* parse_switch: `expect(SWITCH); expect(LPAREN); expr = parse_expr();
\* expect(RPAREN); expect(LBRACE)`, then the loop over the labels.
SwitchHeader(toks) ==
    LET s == expect(toks, 1, "SWITCH")
        l == expect(toks, s.pos, "LPAREN")
    IN  IF ~s.ok THEN s ELSE IF ~l.ok THEN l
        ELSE ThenExpect(toks, ThenExpect(toks, parse_expr(toks, l.pos), "RPAREN"), "LBRACE")

ParseSwitchEnter(toks) ==
    /\ signal.type = "none" /\ kont # <<>> /\ Top(kont).k = "init"
    /\ LET h == SwitchHeader(toks)
       IN  IF h.ok THEN ParserGoes("enter", ParserAt(toks, "labels", h.pos), h)
           ELSE ParserEnds("parse_switch", h)

\* `while current in (CASE, DEFAULT):` a label opens its statement loop;
\* after the last one, `expect(RBRACE); return Switch(...)`.
LabelOf(toks, pos) ==
    IF current(toks, pos).type = "CASE"
    THEN ThenExpect(toks, parse_expr(toks, advance(toks, pos)), "COLON")
    ELSE expect(toks, advance(toks, pos), "COLON")

SwitchLabels ==
    /\ InLoop /\ Top(kont).phase = "labels"
    /\ LET c == Top(kont)
           t == current(c.source, c.pc).type
           lb == LabelOf(c.source, c.pc)
       IN  IF t \notin {"CASE", "DEFAULT"}
           THEN ParserEnds("parse_switch", expect(c.source, c.pc, "RBRACE"))
           ELSE IF ~lb.ok THEN ParserEnds("parse_switch", lb)
           ELSE ParserGoes("label",
                    [c EXCEPT !.phase = IF t = "CASE" THEN "case" ELSE "default",
                              !.pc = lb.pos], lb)

\* One iteration of a statement loop: parse_stmt at the current token.
StatementLoop ==
    /\ InLoop /\ Top(kont).phase \in {"block", "case", "default"}
    /\ LET c == Top(kont)
           r == parse_stmt(c.source, c.pc)
       IN  /\ current(c.source, c.pc).type \notin LoopStops(c.phase)
           /\ IF ~r.ok THEN ParserEnds("statement_loop", r)
              ELSE ParserGoes("iteration",
                       [c EXCEPT !.pc = r.pos,
                                 !.body = IF r.node = NoNode THEN @ ELSE Append(@, r.node)],
                       r)

\* The loop condition fails: parse_block goes on to `expect(RBRACE); return
\* stmts`, a case of parse_switch to the next label.
StatementLoopEnd ==
    /\ InLoop /\ Top(kont).phase \in {"block", "case", "default"}
    /\ LET c == Top(kont)
       IN  /\ current(c.source, c.pc).type \in LoopStops(c.phase)
           /\ IF c.phase = "block"
              THEN ParserEnds("parse_block", WithNode(expect(c.source, c.pc, "RBRACE"), c.body))
              ELSE ParserGoes("end", [c EXCEPT !.phase = "labels", !.body = <<>>],
                              Parsed(c.body, c.pc))

\* A parse method called on a token list: the node and position it returns,
\* or the SyntaxError it raises.
ParseCall(method, toks, r) ==
    /\ signal.type = "none" /\ kont # <<>> /\ Top(kont).k = "init"
    /\ kont' = <<>>
    /\ signal' = IF r.ok THEN NoSig ELSE Sig("SyntaxError", StrV(r.msg))
    /\ last' = Event(method, IF r.ok THEN "node" ELSE "raise",
                     [Ctx0 EXCEPT !.k = "init", !.source = toks], r)
    /\ UNCHANGED <<env_stack, current_object, heap, out>>
ParseExpr(toks) == ParseCall("parse_expr", toks, parse_expr(toks, 1))
ParseStmt(toks) == ParseCall("parse_stmt", toks, parse_stmt(toks, 1))
ParseClass(toks) == ParseCall("parse_class", toks, parse_class(toks, 1))

\* ------------------------------------------------------------------- lexer
\* The source text is a sequence of characters.  The characters of the model's
\* texts: a letter, a digit, a blank, a newline, a double quote, a semicolon.
Letters == {"a"}
Digits == {"1"}
Chars == Letters \cup Digits \cup {" ", "\n", "\"", ";"}

\* Lexer.__init__, with the tokens emitted so far and the message of the
\* SyntaxError raised ("" while none is).
Lexer(code) ==
    [code |-> code, pos |-> 1, line |-> 1, col |-> 1, tokens |-> <<>>, error |-> ""]

\* Lexer.peek(): the character at pos, "" for None.
peek(lx) == IF lx.pos <= Len(lx.code) THEN lx.code[lx.pos] ELSE ""

\* Lexer.advance(): a newline starts the next line at column 1.
LexerAdvance(lx) ==
    IF lx.pos <= Len(lx.code)
    THEN [lx EXCEPT !.pos = @ + 1,
                    !.line = IF peek(lx) = "\n" THEN @ + 1 ELSE @,
                    !.col = IF peek(lx) = "\n" THEN 1 ELSE @ + 1]
    ELSE lx

RECURSIVE skip_whitespace(_)
skip_whitespace(lx) ==
    IF peek(lx) \in {" ", "\n"} THEN skip_whitespace(LexerAdvance(lx)) ELSE lx

Token(type, value, line, col) == [type |-> type, value |-> value, line |-> line, col |-> col]
Emit(lx, token) == [lx EXCEPT !.tokens = Append(@, token)]
LexerError(lx, msg) == [lx EXCEPT !.error = msg]

\* The loops `while self.peek() and <test>: text += self.peek(); self.advance()`
\* of read_number, read_string and read_identifier: the lexer after the loop
\* and the text read.
RECURSIVE ReadWhile(_, _, _)
ReadWhile(lx, class, text) ==
    IF peek(lx) \in class
    THEN ReadWhile(LexerAdvance(lx), class, text \o peek(lx))
    ELSE [lx |-> lx, text |-> text]

\* `return Token(TokenType.INT, int(num_str), self.line, start_col)`; the
\* digits of the model's texts are all 1, num_str is kept as read.
NumberToken(start_col, r) == Emit(r.lx, Token("INT", r.text, r.lx.line, start_col))
read_number(lx) == NumberToken(lx.col, ReadWhile(lx, Digits, ""))

\* read_string: `start_col = self.col; self.advance()`, the loop up to the
\* closing quote (the model's texts hold no backslash), then
\* `Token(TokenType.STRING, string, self.line, start_col)`.
StringToken(start_col, r) ==
    IF peek(r.lx) # "\"" THEN LexerError(r.lx, "Unterminated string")
    ELSE Emit(LexerAdvance(r.lx), Token("STRING", r.text, r.lx.line, start_col))
read_string(lx) == StringToken(lx.col, ReadWhile(LexerAdvance(lx), Chars \ {"\""}, ""))

\* read_identifier: `keywords.get(ident, TokenType.ID)`, the value is the
\* identifier for an ID and None ("") for a keyword.
IdentifierToken(start_col, r) ==
    Emit(r.lx, Token(IdentToken(r.text).type,
                     IF IdentToken(r.text).type = "ID" THEN r.text ELSE "",
                     r.lx.line, start_col))
read_identifier(lx) == IdentifierToken(lx.col, ReadWhile(lx, Letters \cup Digits, ""))

\* Lexer.tokenize(): the loop `while self.pos < len(self.code)` and the EOF
\* token after it.  (The model's texts hold no comment and no operator.)
RECURSIVE tokenize(_), TokenAt(_)
tokenize(lx) == IF lx.error # "" THEN lx ELSE TokenAt(skip_whitespace(lx))

TokenAt(lx) ==
    CASE lx.pos > Len(lx.code) -> Emit(lx, Token("EOF", "", lx.line, lx.col))
      [] peek(lx) \in Digits -> tokenize(read_number(lx))
      [] peek(lx) = "\"" -> tokenize(read_string(lx))
      [] peek(lx) \in Letters -> tokenize(read_identifier(lx))
      [] peek(lx) = ";" ->
            tokenize(Emit(LexerAdvance(lx), Token("SEMICOLON", "", lx.line, lx.col)))
      [] OTHER -> LexerError(lx, "Unexpected character: " \o peek(lx))

\* `Lexer(code).tokenize()`: the tokens, or the SyntaxError.
Lexed(code, lx) ==
    /\ signal.type = "none" /\ kont # <<>> /\ Top(kont).k = "init"
    /\ kont' = <<>>
    /\ signal' = IF lx.error = "" THEN NoSig ELSE Sig("SyntaxError", StrV(lx.error))
    /\ last' = Event("lex", IF lx.error = "" THEN "tokens" ELSE "raise",
                     [Ctx0 EXCEPT !.k = "init", !.source = code], lx.tokens)
    /\ UNCHANGED <<env_stack, current_object, heap, out>>
Tokenize(code) == Lexed(code, tokenize(Lexer(code)))

\* ------------------------------------------------ expressions with effects
\* println(arg) and name++ as the parser builds them.
PrintlnCall(arg) == MethodCall(NoNode, "println", <<arg>>)
PostInc(name) == UnaryOp("++post", Var(name))

\* bool(v) of Python.
Truthy(v) ==
    CASE v.t \in {"int", "bool"} -> v.n # 0
      [] v.t = "str" -> v.s # ""
      [] v.t = "float" -> v.s \notin {"0.0", "-0.0"}
      [] v.t \in {"none", "absent"} -> FALSE
      [] OTHER -> TRUE

\* The state eval_expr works on: the frames, the heap, the output, the exception
\* raised (once one is raised nothing more is evaluated), the value yielded, and
\* the expressions without operands evaluated so far, in order (observation).
ExprState(es, hp, o) ==
    [env |-> es, heap |-> hp, out |-> o, sig |-> NoSig, v |-> NoneV, seen |-> <<>>]

\* BinOp '+' on a str operand without str(): the operands' texts are joined.
PlusUnconverted(l, r) ==
    IF l.t = "str" \/ r.t = "str"
    THEN [ok |-> TRUE, v |-> StrV(l.s \o r.s)]
    ELSE [ok |-> TRUE, v |-> IntV(l.n + r.n)]

\* `left + right`: str(left) + str(right) when either is a str; int + int (a
\* bool is an int); the sum of None and anything but a str is Python's
\* TypeError.  (The model's programs add a float to a str only.)
Plus(l, r) ==
    IF l.t = "str" \/ r.t = "str"
    THEN [ok |-> TRUE, v |-> StrV(PyStr(l) \o PyStr(r))]
    ELSE IF l.t \in {"int", "bool"} /\ r.t \in {"int", "bool"}
    THEN [ok |-> TRUE, v |-> IntV(l.n + r.n)]
    ELSE [ok |-> FALSE, v |-> StrV("unsupported operand type(s) for +")]

\* BinOp with the right operand evaluated before the test of the operator.
ShortCircuitEager(op, leftv) == FALSE

\* `return left and eval(right)` / `return left or eval(right)`: whether the
\* left value is returned without evaluating the right operand.
ShortCircuit(op, leftv) ==
    \/ op = "&&" /\ ~Truthy(leftv)
    \/ op = "||" /\ Truthy(leftv)

\* A Python list: a heap entry that is the sequence of its elements.
ListV(i) == [t |-> "list", n |-> i, s |-> ""]

\* `sub in s` of Python, on strings.
Contains(str, sub) ==
    \E i \in 1..(Len(str) - Len(sub) + 1) : SubSeq(str, i, i + Len(sub) - 1) = sub

\* `[0] * size if 'int' in expr.element_type else [None] * size`
NewArrayElement(element_type) == IF Contains(element_type, "int") THEN IntV(0) ELSE NoneV

\* Python's list * int: no element for a size below one.
Repeat(v, size) == [i \in 1..(IF size > 0 THEN size ELSE 0) |-> v]

\* The index Python reads for list[i] on a list of n elements (0: IndexError).
ListIndex(i, n) == IF 0 <= i /\ i < n THEN i + 1 ELSE IF -n <= i /\ i < 0 THEN n + i + 1 ELSE 0

Raise(st, type, msg) == [st EXCEPT !.sig = Sig(type, StrV(msg)), !.v = NoneV]

\* The operators of the `ops` table on two ints (the model's programs apply
\* them to ints only, and do not divide).
Arith(op, l, r) ==
    CASE op = "-" -> IntV(l.n - r.n)
      [] op = "*" -> IntV(l.n * r.n)
      [] op = "==" -> BoolV(l = r)
      [] op = "!=" -> BoolV(l # r)
      [] op = "<" -> BoolV(l.n < r.n)
      [] op = "<=" -> BoolV(l.n <= r.n)
      [] op = ">" -> BoolV(l.n > r.n)
      [] op = ">=" -> BoolV(l.n >= r.n)

RECURSIVE EvalExpr(_, _, _), EvalArgs(_, _, _, _)

\* `args = [self.eval_expr(arg) for arg in expr.args]`: the state after the
\* arguments and their values.
EvalArgs(st, cur, args, vals) ==
    IF args = <<>> \/ st.sig # NoSig THEN [st |-> st, vals |-> vals]
    ELSE LET r == EvalExpr(st, cur, Head(args))
         IN  EvalArgs(r, cur, Tail(args), Append(vals, r.v))

\* eval_expr(ex) from the state st, with receiver cur.  Covered: literals,
\* Variable, BinOp, UnaryOp, NewArray, ArrayAccess, FieldAccess, and MethodCall
\* for println / print and the string method length (any other call here
\* comes to the `return None` that ends eval_expr; calls of declared methods
\* and NewObject are steps of the machine: Call, StmtNew).
EvalExpr(st, cur, ex) ==
    IF st.sig # NoSig THEN st
    ELSE CASE ex.e \in {"lit", "var"} ->
            LET r == eval_expr(st.env, cur, st.heap, ex)
            IN  [st EXCEPT !.v = IF r.ok THEN r.v ELSE NoneV,
                           !.sig = IF r.ok THEN NoSig ELSE Sig("NameError", r.v),
                           !.seen = Append(@, ex)]
      [] ex.e = "binop" ->
            LET l == EvalExpr(st, cur, ex.left)
                r == EvalExpr(l, cur, ex.right)
                p == Plus(l.v, r.v)
                numeric == l.v.t \in {"int", "bool"} /\ r.v.t \in {"int", "bool"}
            IN  IF l.sig # NoSig THEN l
                ELSE IF ex.op \in {"&&", "||"}
                THEN IF ShortCircuit(ex.op, l.v) THEN l ELSE r
                ELSE IF r.sig # NoSig THEN r
                ELSE IF ex.op = "+"
                THEN IF p.ok THEN [r EXCEPT !.v = p.v] ELSE Raise(r, "TypeError", p.v.s)
                ELSE IF ex.op \in {"==", "!="} \/ numeric
                THEN [r EXCEPT !.v = Arith(ex.op, l.v, r.v)]
                ELSE Raise(r, "TypeError", "unsupported operand type(s) for " \o ex.op)
      [] ex.e = "unary" /\ ex.op \in {"++post", "--post"} ->
            LET r == get_var(st.env, cur, st.heap, ex.operand.name)
                d == IF ex.op = "++post" THEN 1 ELSE -1
                w == set_var(st.env, cur, st.heap, ex.operand.name, IntV(r.v.n + d))
            IN  IF ex.operand.e # "var" THEN [st EXCEPT !.v = NoneV]
                ELSE IF ~r.ok THEN [Raise(st, "NameError", r.v.s) EXCEPT !.seen = Append(@, ex)]
                ELSE IF r.v.t \notin {"int", "bool"}
                THEN [Raise(st, "TypeError", "unsupported operand type(s) for +")
                        EXCEPT !.seen = Append(@, ex)]
                ELSE [st EXCEPT !.env = w.env, !.heap = w.heap, !.v = r.v,
                                !.seen = Append(@, ex)]
      [] ex.e = "unary" /\ ex.op \in {"!", "-"} ->
            LET r == EvalExpr(st, cur, ex.operand)
            IN  IF r.sig # NoSig THEN r
                ELSE IF ex.op = "!" THEN [r EXCEPT !.v = BoolV(~Truthy(r.v))]
                ELSE IF r.v.t \in {"int", "bool"} THEN [r EXCEPT !.v = IntV(-r.v.n)]
                ELSE Raise(r, "TypeError", "bad operand type for unary -")
      [] ex.e = "ternary" ->
            LET c == EvalExpr(st, cur, ex.condition)
            IN  IF c.sig # NoSig THEN c
                ELSE IF Truthy(c.v) THEN EvalExpr(c, cur, ex.true_expr)
                ELSE EvalExpr(c, cur, ex.false_expr)
      [] ex.e = "newarray" ->
            LET z == IF ex.sizes = <<>> THEN [st EXCEPT !.v = IntV(0)]
                     ELSE EvalExpr(st, cur, ex.sizes[1])
                elems == IF ex.sizes = <<>> THEN <<>>
                         ELSE Repeat(NewArrayElement(ex.element_type), z.v.n)
            IN  IF z.sig # NoSig THEN z
                ELSE IF z.v.t \notin {"int", "bool"}
                THEN Raise(z, "TypeError", "can't multiply sequence by non-int")
                ELSE [z EXCEPT !.heap = Append(@, elems), !.v = ListV(Len(z.heap) + 1)]
      [] ex.e = "index" ->
            LET a == EvalExpr(st, cur, ex.array)
                i == EvalExpr(a, cur, ex.index)
                k == ListIndex(i.v.n, Len(i.heap[a.v.n]))
            IN  IF a.sig # NoSig THEN a
                ELSE IF i.sig # NoSig THEN i
                ELSE IF a.v.t # "list" \/ i.v.t \notin {"int", "bool"}
                THEN Raise(i, "TypeError", "object is not subscriptable")
                ELSE IF k = 0 THEN Raise(i, "IndexError", "list index out of range")
                ELSE [i EXCEPT !.v = i.heap[a.v.n][k]]
      [] ex.e = "field" ->
            LET o == EvalExpr(st, cur, ex.obj)
            IN  IF o.sig # NoSig THEN o
                ELSE IF o.v.t = "obj"
                THEN [o EXCEPT !.v = IF ex.field \in Names /\ o.heap[o.v.n][ex.field] # Absent
                                     THEN o.heap[o.v.n][ex.field] ELSE NoneV]
                ELSE IF o.v.t = "list" /\ ex.field = "length"
                THEN [o EXCEPT !.v = IntV(Len(o.heap[o.v.n]))]
                ELSE IF o.v.t = "str" /\ ex.field = "length"
                THEN [o EXCEPT !.v = IntV(Len(o.v.s))]
                ELSE [o EXCEPT !.v = NoneV]
      [] ex.e = "call" ->
            LET a == EvalArgs(st, cur, ex.args, <<>>)
                o == EvalExpr(a.st, cur, ex.obj)
            IN  IF a.st.sig # NoSig THEN a.st
                ELSE IF ex.method \in {"println", "print"}
                THEN [a.st EXCEPT !.out = Append(@, IF a.vals = <<>> THEN ""
                                                    ELSE PyStr(a.vals[1])),
                                  !.v = NoneV]
                ELSE IF ex.obj = NoNode THEN [a.st EXCEPT !.v = NoneV]
                ELSE IF o.sig # NoSig THEN o
                ELSE IF o.v.t = "str" /\ ex.method = "length"
                THEN IF a.vals = <<>> THEN [o EXCEPT !.v = IntV(Len(o.v.s))]
                     ELSE Raise(o, "TypeError", "<lambda>() takes 0 positional arguments")
                ELSE [o EXCEPT !.v = NoneV]

\* get_default_value(type_str), for a declaration without value.
get_default_value(type_str) ==
    IF Contains(type_str, "int") THEN IntV(0)
    ELSE IF Contains(type_str, "float") \/ Contains(type_str, "double") THEN FloatV("0.0")
    ELSE IF Contains(type_str, "boolean") THEN BoolV(FALSE)
    ELSE IF Contains(type_str, "String") THEN StrV("")
    ELSE IF Contains(type_str, "[]") THEN ListV(0)
    ELSE NoneV

\* eval_stmt on VarDecl, Assign, ArrayAssign, FieldAssign and ExprStmt.
EvalStmt(st, cur, stmt) ==
    CASE stmt.s = "expr" -> EvalExpr(st, cur, stmt.ex)
      [] stmt.s \in {"decl", "assign"} ->
            LET d == get_default_value(IF stmt.s = "decl" THEN stmt.var_type ELSE "")
                r == IF stmt.ex = NoNode
                     THEN IF d = ListV(0)
                          THEN [st EXCEPT !.heap = Append(@, <<>>), !.v = ListV(Len(st.heap) + 1)]
                          ELSE [st EXCEPT !.v = d]
                     ELSE EvalExpr(st, cur, stmt.ex)
                w == set_var(r.env, cur, r.heap, stmt.name, r.v)
            IN  IF r.sig # NoSig THEN r ELSE [r EXCEPT !.env = w.env, !.heap = w.heap]
      [] stmt.s = "arrayassign" ->
            LET g == get_var(st.env, cur, st.heap, stmt.name)
                i == EvalExpr(st, cur, stmt.index)
                v == EvalExpr(i, cur, stmt.ex)
                k == ListIndex(i.v.n, Len(v.heap[g.v.n]))
            IN  IF ~g.ok THEN Raise(st, "NameError", g.v.s)
                ELSE IF i.sig # NoSig THEN i
                ELSE IF v.sig # NoSig THEN v
                ELSE IF g.v.t # "list" \/ i.v.t \notin {"int", "bool"}
                THEN Raise(v, "TypeError", "object does not support item assignment")
                ELSE IF k = 0 THEN Raise(v, "IndexError", "list assignment index out of range")
                ELSE [v EXCEPT !.heap[g.v.n][k] = v.v]
      [] stmt.s = "fieldassign" ->
            LET o == EvalExpr(st, cur, stmt.obj)
                v == EvalExpr(o, cur, stmt.ex)
            IN  IF o.sig # NoSig \/ o.v.t # "obj" THEN o
                ELSE IF v.sig # NoSig THEN v
                ELSE [v EXCEPT !.heap[o.v.n][stmt.field] = v.v]

\* Whether every int a frame binds is within the bound of the model.
IntsWithin(es, bound) ==
    \A i \in 1..Len(es) : \A nm \in Names :
        es[i].vars[nm].t = "int" => es[i].vars[nm].n <= bound

\* What an expression statement did: the expression, the state before it and
\* the state eval_expr left.
ExprEvent(ev, ex, pre, post) ==
    [ev |-> ev, how |-> "", ctx |-> Ctx0, result |-> post.v,
     expr |-> ex, pre |-> pre, post |-> post]

\* ExprStmt: eval_expr(stmt.expr).
StmtExpr(ex) ==
    /\ InBody
    /\ LET pre == ExprState(env_stack, heap, out)
           r == EvalExpr(pre, current_object, ex)
       IN  /\ Len(r.out) <= MaxOut /\ IntsWithin(r.env, MaxInt)
           /\ env_stack' = r.env
           /\ heap' = r.heap
           /\ out' = r.out
           /\ signal' = r.sig
           /\ last' = ExprEvent("expr", ex, pre, r)
    /\ UNCHANGED <<current_object, kont>>

\* VarDecl with an initial value: value = eval_expr(stmt.value); set_var(name, value).
StmtDecl(name, ex) ==
    /\ InBody
    /\ LET pre == ExprState(env_stack, heap, out)
           r == EvalExpr(pre, current_object, ex)
           w == set_var(r.env, current_object, r.heap, name, r.v)
       IN  /\ Len(r.out) <= MaxOut /\ IntsWithin(r.env, MaxInt)
           /\ env_stack' = IF r.sig = NoSig THEN w.env ELSE r.env
           /\ heap' = IF r.sig = NoSig THEN w.heap ELSE r.heap
           /\ out' = r.out
           /\ signal' = r.sig
           /\ last' = ExprEvent("decl", ex, pre, r)
    /\ UNCHANGED <<current_object, kont>>

\* ------------------------------------------------- programs given whole
\* A method of a class: its name, whether 'static' is among its modifiers, its body.
Method(name, static, body) == [name |-> name, static |-> static, body |-> body]
\* What parse_program returns: the methods of the classes, in source order
\* (class by class), and the free-standing statements.
Program(methods, stmts) == [methods |-> methods, stmts |-> stmts]

\* The search for main that takes a method of that name whatever its modifiers.
IsEntryAnyModifier(m) == m.name = "main"

\* `if method.name == 'main' and 'static' in method.modifiers`
IsEntry(m) == m.name = "main" /\ m.static

\* The method the nested loops over classes and methods come to first (0: none).
FindMain(methods) ==
    LET S == {i \in 1..Len(methods) : IsEntry(methods[i])}
    IN  IF S = {} THEN 0 ELSE CHOOSE i \in S : \A j \in S : i <= j

\* eval_program(classes, stmts): with a static main, push_env and the loop over
\* its body; without, the loop over stmts in the frames as they are.
RunProgram(prog) ==
    /\ signal.type = "none" /\ kont # <<>> /\ Top(kont).k = "init"
    /\ LET m == FindMain(prog.methods)
       IN  /\ env_stack' = IF m # 0 THEN push_env(env_stack) ELSE env_stack
           /\ kont' = <<[Ctx0 EXCEPT !.k = IF m # 0 THEN "main" ELSE "top",
                                     !.len0 = Len(env_stack), !.prog = prog,
                                     !.body = IF m # 0 THEN prog.methods[m].body
                                              ELSE prog.stmts]>>
    /\ last' = NoEvent
    /\ UNCHANGED <<current_object, heap, signal, out>>

\* interpret(code) on `class M { public static void main() <block> }`, the
\* block given by its tokens: a SyntaxError of the parser is caught by interpret,
\* which prints `Error: <message>` and returns; otherwise eval_program runs main.
Interpret(toks) ==
    /\ signal.type = "none" /\ kont # <<>> /\ Top(kont).k = "init"
    /\ LET r == parse_block(toks, 1)
           prog == Program(<<Method("main", TRUE, r.node)>>, <<>>)
           c == [Ctx0 EXCEPT !.k = "init", !.source = toks]
       IN  IF r.ok
           THEN /\ env_stack' = push_env(env_stack)
                /\ kont' = <<[c EXCEPT !.k = "main", !.len0 = Len(env_stack), !.prog = prog,
                                       !.body = prog.methods[FindMain(prog.methods)].body]>>
                /\ out' = out
                /\ last' = NoEvent
           ELSE /\ env_stack' = env_stack
                /\ kont' = <<>>
                /\ out' = Append(out, "Error: " \o r.msg)
                /\ last' = Event("exit", "syntax", c, NoneV)
    /\ UNCHANGED <<current_object, heap, signal>>

\* One turn of `for stmt in ...: self.eval_stmt(stmt)` in eval_program.
ExecStmt ==
    /\ InBody /\ Top(kont).k \in {"main", "top"}
    /\ Top(kont).pc <= Len(Top(kont).body)
    /\ LET c == Top(kont)
           st == c.body[c.pc]
           pre == ExprState(env_stack, heap, out)
           r == EvalStmt(pre, current_object, st)
       IN  /\ env_stack' = r.env
           /\ heap' = r.heap
           /\ out' = r.out
           /\ signal' = r.sig
           /\ kont' = SetTop(kont, [c EXCEPT !.pc = c.pc + 1])
           /\ last' = ExprEvent(st.s, st.ex, pre, r)
    /\ UNCHANGED current_object

\* ------------------------------------------------- the Evaluator's own methods
\* push_env(), pop_env() and set_var(name, value) called on a new Evaluator in
\* any order, as a client of the class may.
ApiPush ==
    /\ Len(env_stack) < MaxEnv
    /\ env_stack' = push_env(env_stack)
    /\ last' = Event("push_env", "", Ctx0, IntV(Len(env_stack)))
    /\ UNCHANGED <<current_object, heap, kont, signal, out>>

ApiPop ==
    /\ env_stack' = pop_env(env_stack)
    /\ last' = Event("pop_env", "", Ctx0, IntV(Len(env_stack)))
    /\ UNCHANGED <<current_object, heap, kont, signal, out>>

ApiSetVar(name, v) ==
    /\ LET r == set_var(env_stack, current_object, heap, name, v)
       IN  env_stack' = r.env /\ heap' = r.heap
    /\ last' = Event("set_var", name, Ctx0, v)
    /\ UNCHANGED <<current_object, kont, signal, out>>

\* `self.current_object = obj` with a new JavaObject that has the fields.
ApiReceiver(fields) ==
    /\ Len(heap) < MaxObjs
    /\ heap' = Append(heap, NewFields(fields))
    /\ current_object' = Len(heap) + 1
    /\ last' = Event("receiver", "", Ctx0, ObjV(Len(heap) + 1))
    /\ UNCHANGED <<env_stack, kont, signal, out>>

\* ----------------------------------------------------------- specification
Texts == {"caught", "done"}

\* Statements every program of the model may use.
Simple ==
    \/ StmtDivZero
    \/ StmtBreak
    \/ StmtContinue
    \/ StmtReturn(IntV(1))

Ends ==
    \/ \E m \in BOOLEAN : EvalProgram(m)
    \/ ProgramEnd
    \/ ProgramRaise

Loops ==
    \/ StmtLoop
    \/ LoopAgain
    \/ LoopExit
    \/ LoopRaise

Calls ==
    \/ \E v \in Ints : StmtAssign("x", v)
    \/ StmtRead("x")
    \/ \E o \in 1..MaxObjs, ps \in ParamLists : \E as \in ArgValues(ps) :
          StmtCallMethod(o, ps, as)
    \/ \E ps \in ParamLists : \E as \in ArgValues(ps) : StmtCallStatic(ps, as)
    \/ CallEnd
    \/ CallReturn
    \/ CallRaise
    \/ \E fs \in SUBSET {"x"}, ps \in ParamLists : \E xs \in ArgExprLists(ps) :
          StmtNew(fs, ps, xs)
    \/ \E fs \in SUBSET {"x"} : StmtNewPlain(fs)
    \/ \E ex \in ArgExprs : StmtNewInit(ex)
    \/ \E fs \in SUBSET {"x"}, cs \in OverloadLists, n \in 0..1 : StmtNewMismatch(fs, cs, n)
    \/ \E o \in 1..MaxObjs, ms \in OverloadLists, n \in 0..1 : StmtCallMismatch(o, ms, n)
    \/ CtorEnd
    \/ CtorRaise

Tries ==
    \/ \E f \in BOOLEAN : StmtTry(f)
    \/ TryBlockEnd
    \/ \E n \in 0..2 : TryCatch(n, "e")
    \/ CatchEnd
    \/ CatchRaise
    \/ FinallyEnd
    \/ FinallyRaise

Switches ==
    \/ \E cs \in CaseLists, d \in BOOLEAN : StmtSwitch(IntV(1), cs, d)
    \/ CaseEnd
    \/ CaseBreak
    \/ DefaultEnd
    \/ SwitchRaise

\* Programs of calls and constructions.
Next == Ends \/ Simple \/ Calls
Spec == Init /\ [][Next]_vars

\* Programs of try statements and loops.
NextTry == Ends \/ Simple \/ Loops \/ Tries
SpecTry == Init /\ [][NextTry]_vars

\* Programs of try statements whose blocks print and divide by zero.
NextCatch ==
    \/ Ends
    \/ StmtDivZero
    \/ \E t \in Texts : StmtPrintln(t)
    \/ Tries
SpecCatch == Init /\ [][NextCatch]_vars

\* Clients of push_env / pop_env / set_var.
NextEnv ==
    \/ ApiPush
    \/ ApiPop
    \/ \E nm \in Names, v \in Ints : ApiSetVar(nm, v)
SpecEnv == Init /\ [][NextEnv]_vars

\* Clients of set_var, with frames and a receiver: the frames and the objects
\* together are at most MaxEnv.
NextAssign ==
    \/ Len(env_stack) + Len(heap) < MaxEnv /\ ApiPush
    \/ \E fields \in SUBSET {"x"} : Len(env_stack) + Len(heap) < MaxEnv /\ ApiReceiver(fields)
    \/ \E nm \in {"x", "e"}, v \in Ints : ApiSetVar(nm, v)
SpecAssign == Init /\ [][NextAssign]_vars

\* The operands of the logical operators: literals, a variable, and operands
\* with an effect (a println, an increment), alone or under a logical operator.
LogicalOps == {"&&", "||"}
BoolLits == {BoolLit(TRUE), BoolLit(FALSE)}
Effects == {PrintlnCall(Lit(StrV("E"))), PostInc("x")}
Operands ==
    BoolLits \cup Effects \cup {BinOp(op, l, r) : op \in LogicalOps, l \in BoolLits, r \in Effects}

\* Programs of expression statements over the logical operators.
NextLogic ==
    \/ Ends
    \/ \E v \in Ints : StmtAssign("x", v)
    \/ \E op \in LogicalOps, l \in BoolLits \cup {Var("x")}, r \in Operands :
          StmtExpr(BinOp(op, l, r))
    \/ \E op \in LogicalOps, l \in BoolLits, r \in Effects : StmtDecl("x", BinOp(op, l, r))
SpecLogic == Init /\ [][NextLogic]_vars

\* The operands of `+`: an int, a float, the booleans, a character and a string
\* (both Python str), null.
ConcatValues ==
    {IntV(1), FloatV("1.5"), BoolV(TRUE), BoolV(FALSE), StrV("c"), StrV("ab"), NoneV}

\* Programs of declarations whose value is a sum of two literals.
NextConcat ==
    \/ Ends
    \/ \E a \in ConcatValues, b \in ConcatValues :
          /\ "str" \in {a.t, b.t} \/ "float" \notin {a.t, b.t}
          /\ StmtDecl("x", BinOp("+", Lit(a), Lit(b)))
SpecConcat == Init /\ [][NextConcat]_vars

\* Whole programs: up to two methods named main or f, static or not, and up to
\* two free-standing statements.
PrintStmt(text) == ExprStmt(PrintlnCall(Lit(StrV(text))))
MethodBodies == {<<PrintStmt("m")>>, <<VarDecl("int", "x", Lit(IntV(1))), PrintStmt("m")>>}
FreeStmts == {PrintStmt("a"), PrintStmt("b"), VarDecl("int", "x", Lit(IntV(1))), ExprStmt(Var("x"))}
Methods == {Method(nm, st, b) : nm \in {"main", "f"}, st \in BOOLEAN, b \in MethodBodies}
UpToTwo(S) == {<<>>} \cup {<<a>> : a \in S} \cup {<<a, b>> : a \in S, b \in S}
Programs == {Program(ms, ss) : ms \in UpToTwo(Methods), ss \in UpToTwo(FreeStmts)}

NextEntry ==
    \/ \E prog \in Programs : RunProgram(prog)
    \/ ExecStmt
    \/ ProgramEnd
    \/ ProgramRaise
SpecEntry == Init /\ [][NextEntry]_vars

\* Source programs (the tokens of the body of main, `{` to `}` and EOF).
Block(toks) == <<Sym("LBRACE")>> \o toks \o <<Sym("RBRACE"), Sym("EOF")>>
PrintlnTokens(arg) ==
    <<Tok("ID", "println"), Sym("LPAREN")>> \o arg \o <<Sym("RPAREN"), Sym("SEMICOLON")>>

\* `T[] a = new T[n]; println(a.length); println(a[i]);`
NumericTypes == {"int", "float", "double"}
ElementTypes == {"int", "float", "double", "boolean", "char", "String", "P", "Point"}
ArrayProgram(T, n, i) ==
    Block(<<IdentToken(T), Sym("LBRACKET"), Sym("RBRACKET"), Tok("ID", "a"), Sym("ASSIGN"),
            IdentToken("new"), IdentToken(T), Sym("LBRACKET"), Tok("INT", n), Sym("RBRACKET"),
            Sym("SEMICOLON")>>
          \o PrintlnTokens(<<Tok("ID", "a"), Sym("DOT"), Tok("ID", "length")>>)
          \o PrintlnTokens(<<Tok("ID", "a"), Sym("LBRACKET"), Tok("INT", i), Sym("RBRACKET")>>))

\* `int[] a = new int[3]; a[0]=7; a[2]=9; println(a[0]+a[2]); println(a.length);`
Scenario5 ==
    Block(<<IdentToken("int"), Sym("LBRACKET"), Sym("RBRACKET"), Tok("ID", "a"), Sym("ASSIGN"),
            IdentToken("new"), IdentToken("int"), Sym("LBRACKET"), Tok("INT", 3),
            Sym("RBRACKET"), Sym("SEMICOLON"),
            Tok("ID", "a"), Sym("LBRACKET"), Tok("INT", 0), Sym("RBRACKET"), Sym("ASSIGN"),
            Tok("INT", 7), Sym("SEMICOLON"),
            Tok("ID", "a"), Sym("LBRACKET"), Tok("INT", 2), Sym("RBRACKET"), Sym("ASSIGN"),
            Tok("INT", 9), Sym("SEMICOLON")>>
          \o PrintlnTokens(<<Tok("ID", "a"), Sym("LBRACKET"), Tok("INT", 0), Sym("RBRACKET"),
                             Sym("PLUS"),
                             Tok("ID", "a"), Sym("LBRACKET"), Tok("INT", 2), Sym("RBRACKET")>>)
          \o PrintlnTokens(<<Tok("ID", "a"), Sym("DOT"), Tok("ID", "length")>>))

\* `String s = "ab" + 3 + "c"; println(s); println(s.length());`
Scenario4 ==
    Block(<<IdentToken("String"), Tok("ID", "s"), Sym("ASSIGN"), Tok("STRING", "ab"),
            Sym("PLUS"), Tok("INT", 3), Sym("PLUS"), Tok("STRING", "c"), Sym("SEMICOLON")>>
          \o PrintlnTokens(<<Tok("ID", "s")>>)
          \o PrintlnTokens(<<Tok("ID", "s"), Sym("DOT"), Tok("ID", "length"), Sym("LPAREN"),
                             Sym("RPAREN")>>))

\* `String s = A + B; println(s); println(s.length());`
ConcatOperands == {Tok("STRING", "ab"), Tok("STRING", "c"), Tok("STRING", ""), Tok("INT", 3)}
ConcatProgram(a, b) ==
    Block(<<IdentToken("String"), Tok("ID", "s"), Sym("ASSIGN"), a, Sym("PLUS"), b,
            Sym("SEMICOLON")>>
          \o PrintlnTokens(<<Tok("ID", "s")>>)
          \o PrintlnTokens(<<Tok("ID", "s"), Sym("DOT"), Tok("ID", "length"), Sym("LPAREN"),
                             Sym("RPAREN")>>))

Sizes == 0..MaxInt
Indexes == 0..(MaxInt - 1)
Sources ==
    {ArrayProgram(T, n, i) : T \in ElementTypes, n \in Sizes, i \in Indexes}
        \cup {ConcatProgram(a, b) : a \in ConcatOperands, b \in ConcatOperands}
        \cup {Scenario4, Scenario5}

NextSource ==
    \/ \E toks \in Sources : Interpret(toks)
    \/ ExecStmt
    \/ ProgramEnd
    \/ ProgramRaise
SpecSource == Init /\ [][NextSource]_vars

\* Programs of switch statements and loops.
NextSwitch == Ends \/ Simple \/ Loops \/ Switches
SpecSwitch == Init /\ [][NextSwitch]_vars

\* Token lists given to the parser: `a OP1 b OP2 c`, `a OP`, and
\* `c1 ? x : c2 ? y : z`.
BinaryOps == UNION {LevelOps(lvl) : lvl \in 1..6}
Id(name) == Tok("ID", name)
TwoOperators(op1, op2) ==
    <<Id("a"), Sym(op1), Id("b"), Sym(op2), Id("c"), Sym("EOF")>>
NestedTernary ==
    <<Id("c1"), Sym("QUESTION"), Id("x"), Sym("COLON"),
      Id("c2"), Sym("QUESTION"), Id("y"), Sym("COLON"), Id("z"), Sym("EOF")>>
ExprTokens ==
    {TwoOperators(op1, op2) : op1 \in BinaryOps, op2 \in BinaryOps}
        \cup {<<Id("a"), Sym(op), Sym("EOF")>> : op \in BinaryOps}
        \cup {NestedTernary}
\* `class C { <one member> }` with the member forms `T name;`, `T name = 1;`,
\* `T name() { }`, `T name(U x) { }`, `C() { }`, `C(U x) { }`, under modifiers.
ClassOf(member) ==
    <<Sym("CLASS"), Id("C"), Sym("LBRACE")>> \o member \o <<Sym("RBRACE"), Sym("EOF")>>
MemberTypes == {Id("C"), Id("D"), IdentToken("int")}
MemberModifiers == {<<>>, <<Sym("PUBLIC")>>, <<Sym("PRIVATE"), Sym("STATIC")>>}
ParamTokens == {<<>>} \cup {<<U, Id("x")>> : U \in MemberTypes}
MemberTails ==
    {<<Sym("SEMICOLON")>>, <<Sym("ASSIGN"), Tok("INT", 1), Sym("SEMICOLON")>>}
        \cup {<<Sym("LPAREN")>> \o ps \o <<Sym("RPAREN"), Sym("LBRACE"), Sym("RBRACE")>> :
                ps \in ParamTokens}
TypedMembers == {<<T, Id("next")>> \o tail : T \in MemberTypes, tail \in MemberTails}
ConstructorMembers ==
    {<<Id("C"), Sym("LPAREN")>> \o ps \o <<Sym("RPAREN"), Sym("LBRACE"), Sym("RBRACE")>> :
        ps \in ParamTokens}
ClassTokens ==
    {ClassOf(mods \o m) : mods \in MemberModifiers, m \in TypedMembers \cup ConstructorMembers}

\* Statements given to parse_stmt: `name[i] = expr;` and `name = expr;`.
IndexTokens == {<<Tok("INT", 0)>>, <<Id("i")>>, <<Id("i"), Sym("PLUS"), Tok("INT", 1)>>}
ValueTokens == {<<Tok("INT", 7)>>, <<Id("x")>>, <<Id("x"), Sym("STAR"), Tok("INT", 2)>>}
ArrayAssignTokens(name, i, ex) ==
    <<Id(name), Sym("LBRACKET")>> \o i \o <<Sym("RBRACKET"), Sym("ASSIGN")>> \o ex
        \o <<Sym("SEMICOLON"), Sym("EOF")>>
AssignTokens(name, ex) ==
    <<Id(name), Sym("ASSIGN")>> \o ex \o <<Sym("SEMICOLON"), Sym("EOF")>>
StmtTokens ==
    {ArrayAssignTokens(name, i, ex) : name \in {"a", "b"}, i \in IndexTokens, ex \in ValueTokens}
        \cup {AssignTokens(name, ex) : name \in {"a", "b"}, ex \in ValueTokens}

\* Bodies for the statement loops: up to two of `x = 1;`, `;`, `{ }`, `++x;`,
\* in a block (closed or not) and under the labels of a switch.
StatementForms ==
    {<<Id("x"), Sym("ASSIGN"), Tok("INT", 1), Sym("SEMICOLON")>>,
     <<Sym("SEMICOLON")>>,
     <<Sym("LBRACE"), Sym("RBRACE")>>,
     <<Sym("PLUSPLUS"), Id("x"), Sym("SEMICOLON")>>}
Bodies == {<<>>} \cup StatementForms \cup {f \o g : f, g \in StatementForms}
BlockTokens ==
    {Block(b) : b \in Bodies} \cup {<<Sym("LBRACE")>> \o b \o <<Sym("EOF")>> : b \in Bodies}
SwitchOf(cases) ==
    <<Sym("SWITCH"), Sym("LPAREN"), Id("x"), Sym("RPAREN"), Sym("LBRACE")>> \o cases
        \o <<Sym("RBRACE"), Sym("EOF")>>
CaseLabel == <<Sym("CASE"), Tok("INT", 1), Sym("COLON")>>
DefaultLabel == <<Sym("DEFAULT"), Sym("COLON")>>
SwitchTokens ==
    {SwitchOf(CaseLabel \o b) : b \in Bodies}
        \cup {SwitchOf(DefaultLabel \o b) : b \in Bodies}
        \cup {SwitchOf(CaseLabel \o b \o DefaultLabel \o b) : b \in StatementForms}
        \cup {SwitchOf(<<>>), <<Sym("SWITCH"), Sym("LPAREN"), Id("x"), Sym("LBRACE"), Sym("EOF")>>,
              SwitchOf(<<Sym("CASE"), Tok("INT", 1)>>)}

NextParse ==
    \/ \E toks \in ExprTokens : ParseExpr(toks)
    \/ \E toks \in StmtTokens : ParseStmt(toks)
    \/ \E toks \in ClassTokens : ParseClass(toks)
    \/ \E toks \in BlockTokens : ParseBlockEnter(toks)
    \/ \E toks \in SwitchTokens : ParseSwitchEnter(toks)
    \/ SwitchLabels
    \/ StatementLoop
    \/ StatementLoopEnd
SpecParse == Init /\ [][NextParse]_vars

\* Source texts given to the lexer.
Codes == UNION {[1..n -> Chars] : n \in 0..MaxLen}
NextLex == \E code \in Codes : Tokenize(code)
SpecLex == Init /\ [][NextLex]_vars

\* ------------------------------------------------------------------ claims
LeftAn(kinds) == last.ev = "exit" /\ last.ctx.k \in kinds

\* C1: after every method invocation (object method or global method), however
\* it ends, len(env_stack) is what it was right before the call.
C1_ScopeDiscipline ==
    LeftAn({"method", "static"}) => Len(env_stack) = last.ctx.len0

\* C2: after every constructor or object-method invocation, however it ends,
\* current_object is what it was right before the call.
C2_ReceiverDiscipline ==
    LeftAn({"method", "ctor"}) => current_object = last.ctx.recv0

\* C3: env_stack is never empty and its bottom frame is the global frame, also
\* after pop_env calls that outnumber the push_env calls.
C3_GlobalFrameStays == Len(env_stack) >= 1 /\ env_stack[1].global

\* pop_env was just called on a stack that held the global frame alone.
C3_Witness ==
    /\ last.ev = "pop_env" /\ last.result = IntV(1)
    /\ Len(env_stack) = 1 /\ env_stack[1].global

\* C4: the except clause of a try statement never takes a break, continue or
\* return: no catch body runs for it and it is not dropped.
C4_ControlNotCaught ==
    last.ev \in {"catch", "swallow"} => last.ctx.caught \notin ControlTypes

\* C5: a try statement that has a finally block is never left before that
\* block was executed.
C5_FinallyRuns == (LeftAn({"try"}) /\ last.ctx.fin) => last.ctx.finran

\* A try statement is left with the error its catch body raised, after its
\* finally block ran.
C5_Witness ==
    /\ LeftAn({"try"}) /\ last.ctx.fin /\ last.ctx.finran /\ last.ctx.nran = 1
    /\ last.how = "raise" /\ signal.type = "RuntimeError"
    /\ signal = last.ctx.pend

\* C6: a runtime error raised in a try block that has catch clauses starts the
\* body of the first clause with the binder resolving to the error's message;
\* when that body completes no other clause runs: the finally block is next, or
\* the statement is left normally.
C6_FirstCatchRuns ==
    /\ (last.ev = "catch" /\ last.ctx.caught \in ErrorTypes) =>
          /\ last.ctx.clause = 1 /\ last.ctx.nran = 1
          /\ last.ctx.msg = "Division by zero"
          /\ signal = NoSig /\ kont # <<>> /\ Top(kont) = last.ctx
          /\ get_var(env_stack, current_object, heap, last.ctx.binder)
                = [ok |-> TRUE, v |-> StrV("Division by zero")]
    /\ (last.ev = "caught" /\ last.ctx.caught \in ErrorTypes) =>
          /\ last.ctx.nran = 1 /\ signal = NoSig
          /\ kont # <<>> /\ Top(kont).k = "try" /\ Top(kont).phase = "finally"
    /\ (LeftAn({"try"}) /\ last.ctx.phase = "catch" /\ last.how = "normal") =>
          last.ctx.nran = 1 /\ signal = NoSig

\* Scenario 6 has run: the error was caught, the catch body and the finally
\* block have run, the statement is left normally, `caught` and `done` are written.
C6_Witness ==
    /\ LeftAn({"try"}) /\ last.how = "normal"
    /\ last.ctx.nran = 1 /\ last.ctx.finran
    /\ out = <<"caught", "done">>
    /\ signal = NoSig /\ Len(kont) = 1 /\ Top(kont).k = "main"

\* C7: a break executed in a switch statement, in a case list or in the default
\* list, ends that switch and goes no further.
C7_BreakEndsSwitchOnly ==
    ~(LeftAn({"switch"}) /\ last.how = "raise" /\ signal.type = "BreakException")

\* The first case equal to the scrutinee (0: none).
FirstMatch(cases, value) ==
    LET S == {i \in 1..Len(cases) : cases[i] = value}
    IN  IF S = {} THEN 0 ELSE CHOOSE i \in S : \A j \in S : i <= j

C9_ReturnEndsInvocation ==
    LeftAn({"method", "static", "ctor"}) => signal.type # "ReturnException"

\* C10: right after a method invocation has bound its parameters, the frame it
\* pushed binds each parameter name to its argument value.
C10_ParamsInNewFrame ==
    (last.ev = "call" /\ last.ctx.k \in {"method", "static"}) =>
        \A i \in 1..Len(last.ctx.params) :
            Top(env_stack).vars[last.ctx.params[i]] = last.ctx.args[i]

\* C11: when the body of a global (static) method starts, reached by a call
\* without receiver from any place, no receiver is set, and a name no frame
\* binds does not resolve in it.
C11_StaticHasNoReceiver ==
    (last.ev = "call" /\ last.ctx.k = "static") =>
        /\ current_object = 0
        /\ \A nm \in Names : BindingFrame(env_stack, nm) = 0 =>
               ~get_var(env_stack, current_object, heap, nm).ok

\* C12: a field initializer of `new C(..)` is evaluated with no receiver set,
\* wherever the new expression stands.
C12_InitializerHasNoReceiver == last.ev = "init" => last.ctx.recv0 = 0

\* C13: a construction or an object-method call that no declared constructor /
\* method of the name matches in arity is a runtime failure: right after it a
\* RuntimeError is in flight (no value is yielded, execution does not go on).
C13_ArityMismatchFails == last.ev = "mismatch" => signal.type = "RuntimeError"

\* C14: `false && E` and `true || E` yield the left value and leave the frames,
\* the heap and the output as they were, E not being evaluated; `true && E` and
\* `false || E` do to the state exactly what one evaluation of E does, and
\* yield its value.
C14_ShortCircuit ==
    (last.ev \in {"expr", "decl"} /\ last.expr.e = "binop"
       /\ last.expr.op \in LogicalOps /\ last.expr.left \in BoolLits) =>
        LET ex == last.expr
            skip == (ex.op = "&&") = (ex.left = BoolLit(FALSE))
            once == EvalExpr(last.pre, current_object, ex.right)
        IN  IF skip
            THEN /\ last.post.seen = <<ex.left>>
                 /\ last.post.v = ex.left.v
                 /\ last.post.env = last.pre.env /\ last.post.heap = last.pre.heap
                 /\ last.post.out = last.pre.out /\ last.post.sig = NoSig
            ELSE /\ last.post.seen = <<ex.left>> \o once.seen
                 /\ once.sig = NoSig => last.post.v = once.v
                 /\ last.post.env = once.env /\ last.post.heap = once.heap
                 /\ last.post.out = once.out /\ last.post.sig = once.sig

\* `true && x++` and `false && println(..)` have been evaluated: the first
\* incremented x once and yielded its old value, the second wrote nothing.
C14_Witness ==
    /\ last.ev = "expr" /\ last.expr = BinOp("&&", BoolLit(TRUE), PostInc("x"))
    /\ Len(last.pre.env) = 2
    /\ last.pre.env[2].vars["x"] = IntV(1) /\ env_stack[2].vars["x"] = IntV(2)
    /\ last.result = IntV(1) /\ last.post.seen = <<BoolLit(TRUE), PostInc("x")>>

\* The canonical string form of a value: an integer without decimal, a float
\* with decimal, `true` / `false`, `null`, a string as it is.
Canonical(v) ==
    CASE v.t = "int" -> ToString(v.n)
      [] v.t = "bool" -> IF v.n = 1 THEN "true" ELSE "false"
      [] v.t = "none" -> "null"
      [] OTHER -> v.s

\* C15: when either operand of `+` is a string, the sum is the concatenation
\* of the canonical string forms of the two operands.
C15_ConcatLaw ==
    (last.ev = "decl" /\ last.expr.e = "binop" /\ last.expr.op = "+"
       /\ last.expr.left.e = "lit" /\ last.expr.right.e = "lit"
       /\ (last.expr.left.v.t = "str" \/ last.expr.right.v.t = "str")) =>
        /\ last.post.sig = NoSig
        /\ last.result = StrV(Canonical(last.expr.left.v) \o Canonical(last.expr.right.v))

\* The lines the println statements of a statement list write, in order.
RECURSIVE Lines(_)
Lines(body) ==
    IF body = <<>> THEN <<>>
    ELSE (IF body[1].ex.e = "call" THEN <<body[1].ex.args[1].v.s>> ELSE <<>>)
         \o Lines(Tail(body))

\* The frames after these declarations were executed in the frame `frame` of es.
RECURSIVE Declared(_, _, _)
Declared(es, frame, body) ==
    IF body = <<>> THEN es
    ELSE Declared(IF body[1].s = "decl"
                  THEN [es EXCEPT ![frame].vars[body[1].name] = body[1].ex.v] ELSE es,
                  frame, Tail(body))

\* C16: when eval_program has ended, if a method named main with the static
\* modifier exists the output is what the body of one such method writes, no
\* free-standing statement was executed, and the frame the body ran in is
\* popped (the global frame is left as it was); otherwise the free-standing
\* statements ran once each, in source order, in the global frame.
C16_ExecutionEntry ==
    (LeftAn({"main", "top"}) /\ last.how = "normal" /\ last.ctx.prog # <<>>) =>
        LET p == last.ctx.prog
            E == {i \in 1..Len(p.methods) : p.methods[i].name = "main" /\ p.methods[i].static}
        IN  /\ kont = <<>> /\ signal = NoSig
            /\ IF E # {}
               THEN /\ last.ctx.k = "main"
                    /\ \E i \in E : out = Lines(p.methods[i].body)
                    /\ env_stack = <<Frame(TRUE, EmptyDict)>>
               ELSE /\ last.ctx.k = "top"
                    /\ out = Lines(p.stmts)
                    /\ env_stack = Declared(<<Frame(TRUE, EmptyDict)>>, 1, p.stmts)

\* A program with a static main and two free-standing statements has ended:
\* only main's line is written; and the same shape with a non-static main is
\* reachable through the other branch.
C16_Witness ==
    /\ LeftAn({"main"}) /\ last.how = "normal" /\ kont = <<>>
    /\ last.ctx.prog = Program(<<Method("f", TRUE, <<PrintStmt("m")>>),
                                 Method("main", TRUE,
                                        <<VarDecl("int", "x", Lit(IntV(1))), PrintStmt("m")>>)>>,
                               <<PrintStmt("a"), PrintStmt("b")>>)
    /\ out = <<"m">> /\ Len(env_stack) = 1

\* C17: whatever failure ends the run of a program, interpret() has printed an
\* `Error: ..` line and returns normally: no exception goes on to its caller.
C17_InterpretReports ==
    (LeftAn({"main", "top"}) /\ last.how = "raise") =>
        signal = NoSig /\ out # <<>>

\* The run of interpret() on the source has ended, in a SyntaxError of the
\* parser or at the end of eval_program.
Ended(source) == last.ev = "exit" /\ kont = <<>> /\ last.ctx.source = source

\* C18: `new T[n]` is accepted by the parser for every element type T and size
\* n >= 0 and yields a fresh array of exactly n elements, each 0 when T is int,
\* float or double and null for every other element type.
C18_ArrayConstruction ==
    \A T \in ElementTypes, n \in Sizes, i \in Indexes :
        Ended(ArrayProgram(T, n, i)) =>
            /\ last.how # "syntax"
            /\ heap = <<Repeat(IF T \in NumericTypes THEN IntV(0) ELSE NoneV, n)>>

\* C19: scenario 5, `int[] a = new int[3]; a[0]=7; a[2]=9; println(a[0]+a[2]);
\* println(a.length);` in main, parses and runs without error and prints 16
\* and then 3.
C19_Scenario5 ==
    Ended(Scenario5) => last.how = "normal" /\ out = <<"16", "3">>

\* C20 as stated: scenario 4, `String s = "ab" + 3 + "c"; println(s);
\* println(s.length());` in main, prints ab3c and then 5.
C20_Scenario4AsStated ==
    Ended(Scenario4) => out = <<"ab3c", "5">>

\* C20, amended: scenario 4 runs without error and prints ab3c and then 4, the
\* number of characters of ab3c.
C20_Scenario4 ==
    Ended(Scenario4) => last.how = "normal" /\ signal = NoSig /\ out = <<"ab3c", "4">>

\* Scenario 4 has run to the end of main, both lines written.
C20_Witness ==
    Ended(Scenario4) /\ last.how = "normal" /\ Len(out) > 1 /\ out[1] = "ab3c"

\* C21: the tokens the lexer emits for an accepted text, the final EOF
\* included, have non-decreasing source positions: (line, col) of a token is
\* lexicographically at most that of the next one.
C21_TokenPositionsMonotone ==
    (last.ev = "lex" /\ last.how = "tokens") =>
        \A i \in 1..(Len(last.result) - 1) :
            \/ last.result[i].line < last.result[i + 1].line
            \/ /\ last.result[i].line = last.result[i + 1].line
               /\ last.result[i].col <= last.result[i + 1].col

\* The level of a binary operator in the precedence table (2 loosest, 7 tightest).
PrecedenceLevel(type) ==
    CASE type = "OR" -> 2
      [] type = "AND" -> 3
      [] type \in {"EQ", "NE"} -> 4
      [] type \in {"LT", "LE", "GT", "GE"} -> 5
      [] type \in {"PLUS", "MINUS"} -> 6
      [] type \in {"STAR", "SLASH", "PERCENT"} -> 7

\* What parse_expr is to yield for `a OP1 b OP2 c`: the tighter operator
\* grouped first, equal levels to the left, and of two relational operators
\* only the first taken (the expression ends before the second).
Grouping(op1, op2) ==
    IF PrecedenceLevel(op1) = 5 /\ PrecedenceLevel(op2) = 5
    THEN Parsed(BinOp(OpOf(op1), Var("a"), Var("b")), 4)
    ELSE IF PrecedenceLevel(op1) >= PrecedenceLevel(op2)
    THEN Parsed(BinOp(OpOf(op2), BinOp(OpOf(op1), Var("a"), Var("b")), Var("c")), 6)
    ELSE Parsed(BinOp(OpOf(op1), Var("a"), BinOp(OpOf(op2), Var("b"), Var("c"))), 6)

\* C22: parse_expr groups `a OP1 b OP2 c` by the precedence table, equal
\* levels to the left, takes at most one relational operator, and parses
\* `c1 ? x : c2 ? y : z` as c1 ? x : (c2 ? y : z).
C22_PrecedenceAndAssociativity ==
    last.ev = "parse_expr" =>
        /\ \A op1 \in BinaryOps, op2 \in BinaryOps :
                last.ctx.source = TwoOperators(op1, op2) => last.result = Grouping(op1, op2)
        /\ last.ctx.source = NestedTernary =>
                last.result = Parsed(TernaryOp(Var("c1"), Var("x"),
                                               TernaryOp(Var("c2"), Var("y"), Var("z"))),
                                     Len(NestedTernary))

\* `a - b * c` has been parsed: the product is the right operand of the difference.
C22_Witness ==
    /\ last.ev = "parse_expr" /\ last.ctx.source = TwoOperators("MINUS", "STAR")
    /\ last.result.ok /\ last.result.node.op = "-" /\ last.result.node.right.op = "*"

\* The frames and the heap with one frame binding, or one field, given the value.
WithBinding(es, i, name, v) ==
    [j \in 1..Len(es) |->
        [es[j] EXCEPT !.vars = [nm \in Names |-> IF j = i /\ nm = name THEN v ELSE @[nm]]]]
WithField(hp, o, name, v) ==
    [j \in 1..Len(hp) |-> [nm \in Names |-> IF j = o /\ nm = name THEN v ELSE hp[j][nm]]]

\* C23: set_var(name, v) changes exactly one binding: that of name in the
\* topmost frame that binds it; else, with a receiver that has the field name,
\* that field; else a new binding in the top frame.  Nothing else changes.
C23_SetVarChangesOne ==
    [][last'.ev = "set_var" =>
        LET name == last'.how
            v == last'.result
            Binds == {i \in 1..Len(env_stack) : env_stack[i].vars[name] # Absent}
        IN  IF Binds # {}
            THEN /\ \E i \in Binds :
                        /\ \A j \in Binds : j <= i
                        /\ env_stack' = WithBinding(env_stack, i, name, v)
                 /\ heap' = heap
            ELSE IF current_object # 0 /\ heap[current_object][name] # Absent
            THEN /\ heap' = WithField(heap, current_object, name, v)
                 /\ env_stack' = env_stack
            ELSE /\ env_stack' = WithBinding(env_stack, Len(env_stack), name, v)
                 /\ heap' = heap]_vars

\* set_var has written a field of the receiver: no frame binds the name, two
\* frames stand, and a name bound in the lower frame is shadowed nowhere.
C23_Witness ==
    /\ last.ev = "set_var" /\ last.how = "x" /\ current_object # 0
    /\ heap[current_object]["x"] = last.result
    /\ Len(env_stack) > 1
    /\ \A i \in 1..Len(env_stack) : env_stack[i].vars["x"] = Absent
    /\ env_stack[1].vars["e"] # Absent

\* The member of `class C { <modifiers> <member> }`: where it starts, and
\* whether its leading identifier C is immediately followed by `(`.
MemberStart(toks) == parse_modifiers(toks, 4, <<>>).pos
LeadsWithClassName(toks) == toks[MemberStart(toks)] = Id("C")
IsConstructorForm(toks) == toks[MemberStart(toks) + 1].type = "LPAREN"

\* C24: inside class C, a member whose leading identifier is C is a
\* constructor only when `(` follows at once; `C name;`, `C name = e;` and
\* `C name(...) {...}` are parsed as a field or a method of type C, not rejected.
C24_MemberClassification ==
    (last.ev = "parse_class" /\ LeadsWithClassName(last.ctx.source)) =>
        IF IsConstructorForm(last.ctx.source)
        THEN /\ last.result.ok
             /\ Len(last.result.node.constructors) = 1
             /\ last.result.node.fields = <<>> /\ last.result.node.methods = <<>>
        ELSE /\ last.result.ok
             /\ last.result.node.constructors = <<>>
             /\ \/ /\ Len(last.result.node.fields) = 1
                   /\ last.result.node.fields[1].field_type = "C"
                \/ /\ Len(last.result.node.methods) = 1
                   /\ last.result.node.methods[1].return_type = "C"

\* The expression a token list spells.
ExprOf(toks) == parse_expr(toks \o <<Sym("EOF")>>, 1).node

\* C25: for every identifier name and index expression i, the statement
\* `name[i] = expr;` parses to ArrayAssign(name, i, expr); it neither fails nor
\* becomes a declaration.
C25_ArrayAssignParses ==
    \A name \in {"a", "b"}, i \in IndexTokens, ex \in ValueTokens :
        (last.ev = "parse_stmt" /\ last.ctx.source = ArrayAssignTokens(name, i, ex)) =>
            /\ last.result.ok
            /\ last.result.node = ArrayAssign(name, ExprOf(i), ExprOf(ex))

\* C26: the parser terminates on every finite token list: every iteration of
\* the statement loops of parse_block and parse_switch consumes at least one
\* token or raises (a nested `{ }`, a stray `;`, a statement that starts with
\* `++` included).
C26_LoopIterationAdvances ==
    (last.ev = "statement_loop" /\ last.how = "iteration") => last.result.pos > last.ctx.pc

\* C27: a method call does not change the value of a variable bound in a
\* caller's frame because a parameter of the callee has the same name: binding
\* the parameters leaves every frame of the caller as it was (so after a
\* recursive call f(n - 1) returns, the caller's n is what it was).
C27_CallerIsolation ==
    [][(last'.ev = "call" /\ last'.ctx.k \in {"method", "static"}) =>
          SubSeq(env_stack', 1, Len(env_stack)) = env_stack]_vars

\* C28: a runtime error raised in the try block of a try statement without
\* catch clause (try/finally) is not swallowed: while the finally block runs
\* the error is pending, to propagate after it.
C28_FinallyOnlyPropagates ==
    (/\ last.ev = "swallow" /\ last.ctx.ncatch = 0 /\ last.ctx.fin
     /\ last.ctx.caught \notin ControlTypes) =>
        /\ Top(kont).phase = "finally"
        /\ Top(kont).pend.type = last.ctx.caught

\* C29: every argument of `new C(args)` is evaluated in the caller's context,
\* before the frame is pushed and the receiver is switched: the parameter gets
\* the value the argument has with the caller's frames and receiver (`this` and
\* unqualified field names are the caller's), or the construction raises the
\* error the argument raises there.
C29_CtorArgsInCallerContext ==
    [][(last'.ev = "call" /\ last'.ctx.k = "ctor") =>
          \A i \in 1..Len(last'.ctx.params) :
              LET a == eval_expr(env_stack, current_object, heap, last'.ctx.args[i])
              IN  IF a.ok
                  THEN /\ signal'.type = "none"
                       /\ get_var(env_stack', current_object', heap', last'.ctx.params[i]).v = a.v
                  ELSE signal'.type = "NameError"]_vars

\* A step that leaves the body of a catch clause: the try statement goes on to
\* its finally block or is left.
LeavesCatchBody ==
    /\ kont # <<>> /\ Top(kont).k = "try" /\ Top(kont).phase = "catch"
    /\ \/ Len(kont') < Len(kont)
       \/ Len(kont') = Len(kont) /\ Top(kont').phase = "finally"

\* C30: the frame pushed for the binder of a catch clause is popped on every
\* exit from the catch body (normal completion, return, break or continue in
\* the body, an error raised in it), so that the try statement leaves the
\* environment stack as long as it found it.
C30_CatchFramePopped ==
    [][LeavesCatchBody => Len(env_stack') = Len(env_stack) - 1]_vars

====
